---------------------------- MODULE Spec2Model ----------------------------
(***************************************************************************)
(* A model of @digitalbazaar/totp (src/lib/totp.js, src/lib/hmac.js).      *)
(*                                                                         *)
(* The library keeps no state between calls.  The model's state is the     *)
(* record of the most recent call of each exported operation: its          *)
(* arguments and its outcome ("returned", "threw" or "diverged").  Every   *)
(* action is one whole call, computed as the source computes it.           *)
(*                                                                         *)
(* Representation of JavaScript values:                                    *)
(*   - a string is a sequence of one-character strings;                    *)
(*   - a Uint8Array is a sequence of integers 0..255;                      *)
(*   - an argument whose JavaScript type the code tests is a record        *)
(*     [type, v] (type is the result of typeof / instanceof);              *)
(*   - a number that may have a fractional part (digits, delta, steps) is  *)
(*     held in HALVES: the integer h stands for the number h/2, so 5       *)
(*     stands for 2.5 and 12 for 6.                                        *)
(***************************************************************************)
EXTENDS Integers, Sequences, FiniteSets, TLC

VARIABLES
  sec,   \* the last generateSecret call
  gen,   \* the last generateToken call
  ver,   \* the last verify call
  enc,   \* the last toKeyUri call
  dec,   \* the last fromKeyUri call
  pad,   \* the last _padSecret call
  trunc, \* the last _dynamicTruncation call
  mem,   \* the caller's secret buffer and the calls made with it
  par,   \* a verify call in progress: its candidate computations
  rfc    \* the last generateToken call of the RFC 6238 test vectors

vars == <<sec, gen, ver, enc, dec, pad, trunc, mem, par, rfc>>

---------------------------------------------------------------------------
(* Bounds of the model.                                                    *)

\* Uint8Array secrets of 6, 12, ..., 6 * MaxSecretChunks bytes are tried,
\* beside the empty one and the 20 bytes generateSecret returns
MaxSecretChunks == 1
\* times now = t * 15000 ms for t in 0..MaxTick
MaxTick == 2
\* getRandomValues fills are drawn from MaxSeed + 1 byte patterns
MaxSeed == 0
\* account names and issuers of up to MaxNameLen characters
MaxNameLen == 2

\* the longest secret given to _padSecret on its own
MaxSecretLen == 66

\* the largest delta of a verify call followed step by step
MaxDelta == 2

\* the number of calls made with one secret buffer
MaxCalls == 2

---------------------------------------------------------------------------
(* JavaScript values.                                                      *)

Num(h) == [type |-> "number", h |-> h]
NotANumber == [type |-> "string", h |-> 0]
Str(s) == [type |-> "string", v |-> s]
Bytes(b) == [type |-> "Uint8Array", v |-> b]
Undefined == [type |-> "undefined", v |-> <<>>]

NoError == [name |-> "", msg |-> "", arg |-> <<>>]
Err(name, msg, arg) == [name |-> name, msg |-> msg, arg |-> arg]

Returned(v) == [st |-> "returned", v |-> v, err |-> NoError]
Threw(e) == [st |-> "threw", v |-> <<>>, err |-> e]
Diverged == [st |-> "diverged", v |-> <<>>, err |-> NoError]

\* the printable ASCII characters, code 32 first (code 96 is written "grave")
Ascii ==
  <<
    " ", "!", "\"", "#", "$", "%", "&", "'", "(", ")", "*", "+", ",", "-", ".", "/",
    "0", "1", "2", "3", "4", "5", "6", "7", "8", "9", ":", ";", "<", "=", ">", "?",
    "@", "A", "B", "C", "D", "E", "F", "G", "H", "I", "J", "K", "L", "M", "N", "O",
    "P", "Q", "R", "S", "T", "U", "V", "W", "X", "Y", "Z", "[", "\\", "]", "^", "_",
    "grave", "a", "b", "c", "d", "e", "f", "g", "h", "i", "j", "k", "l", "m", "n", "o",
    "p", "q", "r", "s", "t", "u", "v", "w", "x", "y", "z", "{", "|", "}", "~"
  >>

CharCodes ==
  [c \in {Ascii[i] : i \in 1..Len(Ascii)} |->
     31 + CHOOSE i \in 1..Len(Ascii) : Ascii[i] = c]

CharCode(c) == CharCodes[c]
CharOfCode(n) == Ascii[n - 31]

\* new TextEncoder().encode(s), for ASCII strings
TextEncode(s) == [i \in 1..Len(s) |-> CharCode(s[i])]

Digits36 ==
  <<"0", "1", "2", "3", "4", "5", "6", "7", "8", "9",
    "a", "b", "c", "d", "e", "f">>

IsHexDigit(c) ==
  c \in {"0", "1", "2", "3", "4", "5", "6", "7", "8", "9",
         "a", "b", "c", "d", "e", "f", "A", "B", "C", "D", "E", "F"}

HexValue(c) ==
  IF c \in {"0", "1", "2", "3", "4", "5", "6", "7", "8", "9"} THEN CharCode(c) - 48
  ELSE IF c \in {"a", "b", "c", "d", "e", "f"} THEN CharCode(c) - 87
  ELSE CharCode(c) - 55

\* Number.prototype.toString(radix) of a non-negative integer
RECURSIVE NatToString(_, _)
NatToString(n, radix) ==
  IF n < radix THEN <<Digits36[n + 1]>>
  ELSE Append(NatToString(n \div radix, radix), Digits36[(n % radix) + 1])

\* Number.prototype.toString(16) of the number h/2: the sign, the integer
\* part, and ".8" for a fractional part of one half
ToString16(h) ==
  LET a == IF h < 0 THEN -h ELSE h
  IN (IF h < 0 THEN <<"-">> ELSE <<>>)
       \o NatToString(a \div 2, 16)
       \o (IF a % 2 = 1 THEN <<".", "8">> ELSE <<>>)

\* String.prototype.padStart(n, c)
PadStart(s, n, c) ==
  IF Len(s) >= n THEN s ELSE [i \in 1..(n - Len(s)) |-> c] \o s

\* String.prototype.slice(start), start an integer
Slice(s, start) ==
  LET from == IF start < 0
              THEN (IF Len(s) + start < 0 THEN 0 ELSE Len(s) + start)
              ELSE (IF start > Len(s) THEN Len(s) ELSE start)
  IN SubSeq(s, from + 1, Len(s))

\* parseInt(s, 16): an optional sign, an optional 0x, then the longest run of
\* hex digits; NaN when there is none
RECURSIVE HexPrefix(_, _)
HexPrefix(s, acc) ==
  IF s = <<>> \/ ~IsHexDigit(Head(s)) THEN acc
  ELSE HexPrefix(Tail(s), [n |-> acc.n + 1, v |-> acc.v * 16 + HexValue(Head(s))])

ParseInt16(s) ==
  LET neg == s # <<>> /\ Head(s) = "-"
      s1 == IF s # <<>> /\ Head(s) \in {"-", "+"} THEN Tail(s) ELSE s
      s2 == IF Len(s1) >= 2 /\ s1[1] = "0" /\ s1[2] \in {"x", "X"}
            THEN SubSeq(s1, 3, Len(s1)) ELSE s1
      p == HexPrefix(s2, [n |-> 0, v |-> 0])
  IN [nan |-> p.n = 0, v |-> IF neg THEN -p.v ELSE p.v]

\* the conversion of a number stored into a Uint8Array element
ToUint8(x) == IF x.nan THEN 0 ELSE x.v % 256


Includes(seq, x) == \E i \in 1..Len(seq) : seq[i] = x

\* the truncation toward zero that slice() applies to the number x/2
TruncHalves(x) == IF x >= 0 THEN x \div 2 ELSE -((-x) \div 2)

---------------------------------------------------------------------------
(* src/lib/hmac.js                                                         *)

SHA1 == <<"S", "H", "A", "-", "1">>
SHA256 == <<"S", "H", "A", "-", "2", "5", "6">>
SHA512 == <<"S", "H", "A", "-", "5", "1", "2">>
BLAKE2b == <<"B", "L", "A", "K", "E", "2", "b">>

SUPPORTED_HASHES == <<SHA1, SHA256, SHA512>>

MIN_SECRET_SIZE(algorithm) ==
  CASE algorithm = SHA1 -> 20
    [] algorithm = SHA256 -> 32
    [] algorithm = SHA512 -> 64

\* the size parameter's default in generateSecret({size = 20} = {})
DefaultSecretSize == 20

\* getRandomValues(new Uint8Array(size)): any bytes; the model draws the
\* fill from MaxSeed + 1 patterns
RandomValues(size) ==
  {[i \in 1..size |-> (seed * 37 + i * 11) % 256] : seed \in 0..MaxSeed}

\* the length in bytes of an HMAC with the named hash
DigestSize(algorithm) ==
  CASE algorithm = SHA1 -> 20
    [] algorithm = SHA256 -> 32
    [] algorithm = SHA512 -> 64

RECURSIVE WeightedSum(_, _)
WeightedSum(b, i) ==
  IF i > Len(b) THEN 0 ELSE (b[i] * (2 * i + 1) + WeightedSum(b, i + 1)) % 256

\* subtle.sign: the platform's HMAC, which the library does not implement.
\* It is modelled as one fixed keyed function with the two properties the
\* library relies on: it is deterministic, and for a given algorithm and key
\* it is collision-free on messages of up to 10 bytes (the message bytes
\* and the message length can be read back from bytes 1..11 of the digest).
\* Every other byte, the last one included, depends on key and message.
SignOther(algorithm, key, data) ==
  LET n == DigestSize(algorithm)
      k == WeightedSum(key, 1)
      d == WeightedSum(data, 1)
      l == Len(data)
  IN [i \in 1..n |->
        IF i <= l /\ i <= 10 THEN (data[i] + k + 7 * i) % 256
        ELSE IF i = 11 THEN (l + k) % 256
        ELSE (k + (d + 13) * i + 5 * l) % 256]

\* the keys of the RFC 6238 Appendix B vectors: "12345678901234567890" in
\* ASCII, repeated up to 20, 32 and 64 bytes
RfcKey20 == [i \in 1..20 |-> 48 + (i % 10)]
RfcKey32 == [i \in 1..32 |-> 48 + (i % 10)]
RfcKey64 == [i \in 1..64 |-> 48 + (i % 10)]

\* subtle.sign on the keys and counters of the RFC 6238 Appendix B vectors:
\* the HMAC-SHA-1, HMAC-SHA-256 and HMAC-SHA-512 digests (RFC 2104 with
\* FIPS 180-4), which the platform computes and the library does not
PlatformDigests == {
  [algorithm |-> SHA1, key |-> RfcKey20, data |-> <<0, 0, 0, 0, 0, 0, 0, 1>>,
   digest |->
     <<117, 164, 138, 25, 212, 203, 225, 0, 100, 78, 138, 193, 57, 126, 234, 116,
       122, 45, 51, 171>>],
  [algorithm |-> SHA256, key |-> RfcKey32, data |-> <<0, 0, 0, 0, 0, 0, 0, 1>>,
   digest |->
     <<57, 37, 20, 201, 221, 65, 101, 212, 112, 148, 86, 6, 44, 120, 224, 78,
       22, 230, 135, 24, 81, 89, 81, 51, 59, 219, 139, 38, 202, 163, 5, 60>>],
  [algorithm |-> SHA512, key |-> RfcKey64, data |-> <<0, 0, 0, 0, 0, 0, 0, 1>>,
   digest |->
     <<111, 118, 243, 36, 35, 12, 239, 218, 29, 63, 101, 48, 154, 11, 173, 179,
       110, 252, 233, 82, 138, 218, 100, 150, 125, 113, 228, 233, 215, 76, 74, 163,
       127, 231, 101, 15, 147, 26, 184, 109, 220, 204, 45, 56, 150, 45, 114, 14,
       230, 38, 162, 15, 235, 49, 27, 72, 90, 146, 227, 187, 7, 150, 223, 40>>],
  [algorithm |-> SHA1, key |-> RfcKey20, data |-> <<0, 0, 0, 0, 2, 53, 35, 236>>,
   digest |->
     <<39, 140, 2, 229, 54, 16, 248, 76, 64, 189, 145, 53, 172, 212, 16, 16,
       18, 65, 10, 20>>],
  [algorithm |-> SHA256, key |-> RfcKey32, data |-> <<0, 0, 0, 0, 2, 53, 35, 236>>,
   digest |->
     <<78, 237, 114, 152, 100, 82, 93, 119, 19, 38, 198, 4, 155, 200, 133, 98,
       159, 184, 129, 62, 187, 65, 126, 87, 4, 223, 2, 53, 135, 147, 240, 86>>],
  [algorithm |-> SHA512, key |-> RfcKey64, data |-> <<0, 0, 0, 0, 2, 53, 35, 236>>,
   digest |->
     <<179, 56, 18, 80, 38, 13, 106, 158, 129, 26, 229, 141, 250, 64, 103, 5,
       227, 140, 128, 76, 151, 82, 141, 90, 126, 216, 238, 83, 51, 49, 248, 196,
       60, 195, 69, 73, 17, 173, 29, 39, 97, 249, 56, 1, 112, 192, 177, 128,
       166, 87, 227, 169, 68, 199, 150, 224, 93, 9, 242, 209, 99, 11, 117, 5>>],
  [algorithm |-> SHA1, key |-> RfcKey20, data |-> <<0, 0, 0, 0, 2, 53, 35, 237>>,
   digest |->
     <<176, 9, 43, 33, 208, 72, 175, 32, 157, 160, 161, 221, 212, 152, 173, 232,
       167, 148, 135, 237>>],
  [algorithm |-> SHA256, key |-> RfcKey32, data |-> <<0, 0, 0, 0, 2, 53, 35, 237>>,
   digest |->
     <<203, 72, 247, 239, 92, 217, 143, 109, 123, 252, 179, 26, 231, 69, 143, 246,
       146, 160, 21, 119, 98, 5, 222, 126, 26, 191, 255, 41, 214, 212, 138, 157>>],
  [algorithm |-> SHA512, key |-> RfcKey64, data |-> <<0, 0, 0, 0, 2, 53, 35, 237>>,
   digest |->
     <<1, 113, 62, 213, 158, 73, 148, 138, 79, 15, 255, 183, 70, 107, 174, 186,
       198, 99, 98, 217, 7, 100, 165, 162, 61, 247, 97, 99, 110, 21, 53, 196,
       75, 99, 83, 57, 236, 0, 167, 137, 184, 202, 69, 205, 61, 114, 122, 205,
       107, 153, 80, 71, 84, 127, 111, 104, 173, 198, 241, 106, 116, 54, 195, 49>>],
  [algorithm |-> SHA1, key |-> RfcKey20, data |-> <<0, 0, 0, 0, 2, 115, 239, 7>>,
   digest |->
     <<144, 124, 209, 169, 17, 101, 100, 236, 185, 213, 209, 120, 3, 37, 242, 70,
       23, 63, 231, 3>>],
  [algorithm |-> SHA256, key |-> RfcKey32, data |-> <<0, 0, 0, 0, 2, 115, 239, 7>>,
   digest |->
     <<59, 239, 184, 130, 28, 174, 249, 223, 78, 5, 121, 13, 160, 150, 97, 99,
       244, 227, 143, 238, 231, 247, 31, 205, 40, 156, 61, 228, 141, 52, 134, 217>>],
  [algorithm |-> SHA512, key |-> RfcKey64, data |-> <<0, 0, 0, 0, 2, 115, 239, 7>>,
   digest |->
     <<135, 208, 207, 181, 212, 233, 104, 215, 217, 4, 26, 92, 242, 29, 215, 212,
       96, 112, 87, 132, 0, 79, 2, 68, 237, 185, 128, 4, 230, 207, 153, 66,
       172, 229, 57, 214, 33, 201, 125, 192, 251, 117, 246, 241, 13, 100, 175, 31,
       9, 236, 174, 131, 234, 127, 18, 19, 199, 250, 24, 125, 250, 246, 185, 56>>],
  [algorithm |-> SHA1, key |-> RfcKey20, data |-> <<0, 0, 0, 0, 3, 249, 64, 170>>,
   digest |->
     <<37, 163, 38, 211, 31, 195, 102, 36, 76, 173, 5, 73, 118, 2, 12, 123,
       86, 177, 61, 95>>],
  [algorithm |-> SHA256, key |-> RfcKey32, data |-> <<0, 0, 0, 0, 3, 249, 64, 170>>,
   digest |->
     <<164, 232, 234, 187, 229, 73, 173, 250, 101, 64, 137, 69, 169, 40, 44, 185,
       63, 57, 79, 6, 192, 212, 241, 34, 38, 9, 99, 100, 27, 195, 171, 226>>],
  [algorithm |-> SHA512, key |-> RfcKey64, data |-> <<0, 0, 0, 0, 3, 249, 64, 170>>,
   digest |->
     <<18, 155, 170, 115, 140, 250, 21, 101, 162, 66, 151, 35, 123, 206, 40, 38,
       113, 255, 110, 38, 23, 84, 235, 112, 17, 225, 231, 91, 210, 85, 91, 50,
       99, 19, 20, 42, 31, 159, 226, 243, 29, 156, 230, 204, 149, 211, 177, 106,
       13, 238, 86, 242, 73, 47, 47, 118, 136, 87, 2, 217, 139, 250, 220, 147>>],
  [algorithm |-> SHA1, key |-> RfcKey20, data |-> <<0, 0, 0, 0, 39, 188, 134, 170>>,
   digest |->
     <<171, 7, 233, 126, 44, 18, 120, 118, 157, 188, 215, 87, 131, 170, 189, 231,
       94, 216, 85, 10>>],
  [algorithm |-> SHA256, key |-> RfcKey32, data |-> <<0, 0, 0, 0, 39, 188, 134, 170>>,
   digest |->
     <<19, 99, 204, 14, 227, 85, 127, 9, 46, 91, 85, 234, 61, 219, 6, 188,
       210, 15, 6, 60, 227, 147, 204, 246, 112, 5, 158, 60, 164, 73, 65, 248>>],
  [algorithm |-> SHA512, key |-> RfcKey64, data |-> <<0, 0, 0, 0, 39, 188, 134, 170>>,
   digest |->
     <<86, 34, 152, 160, 42, 241, 62, 117, 34, 18, 122, 222, 227, 220, 102, 120,
       213, 54, 105, 202, 43, 112, 22, 24, 105, 104, 249, 169, 193, 79, 81, 209,
       231, 9, 139, 169, 18, 147, 160, 27, 95, 59, 171, 66, 7, 162, 175, 92,
       227, 50, 164, 95, 44, 47, 242, 185, 136, 90, 164, 47, 246, 28, 180, 38>>]}

\* subtle.sign: the platform's digest where the model holds it, the fixed
\* keyed function elsewhere
Sign(algorithm, key, data) ==
  IF \E e \in PlatformDigests :
       e.algorithm = algorithm /\ e.data = data /\ e.key = key
  THEN (CHOOSE e \in PlatformDigests :
          e.algorithm = algorithm /\ e.data = data /\ e.key = key).digest
  ELSE SignOther(algorithm, key, data)

\* Uint8Array.prototype.set(src, offset)
SetAt(target, src, offset) ==
  [i \in 1..Len(target) |->
     IF i > offset /\ i <= offset + Len(src) THEN src[i - offset] ELSE target[i]]

\* a loop that breaks without copying the start of the last repetition
RECURSIVE PadLoopWithoutTail(_, _, _, _)
PadLoopWithoutTail(padded, length, secret, minSize) ==
  IF ~(length < minSize) THEN Returned(padded)
  ELSE IF Len(secret) > minSize - length THEN Returned(padded)
  ELSE LET padded2 == SetAt(padded, secret, length)
           length2 == length + Len(secret)
       IN IF padded2 = padded /\ length2 = length
          THEN Diverged
          ELSE PadLoopWithoutTail(padded2, length2, secret, minSize)

\* the while loop of _padSecret, from the state (padded, length).  The loop
\* is deterministic: an iteration that leaves (padded, length) as it found
\* them, with the loop condition still true, repeats forever.
RECURSIVE PadLoop(_, _, _, _)
PadLoop(padded, length, secret, minSize) ==
  IF ~(length < minSize) THEN Returned(padded)
  ELSE LET remaining == minSize - length
       IN IF Len(secret) > remaining
          THEN Returned(SetAt(padded, SubSeq(secret, 1, remaining), length))
          ELSE LET padded2 == SetAt(padded, secret, length)
                   length2 == length + Len(secret)
               IN IF padded2 = padded /\ length2 = length
                  THEN Diverged
                  ELSE PadLoop(padded2, length2, secret, minSize)

_padSecret(algorithm, secret) ==
  LET minSize == MIN_SECRET_SIZE(algorithm)
  IN IF Len(secret) >= minSize THEN Returned(secret)
     ELSE PadLoop([i \in 1..minSize |-> 0], 0, secret, minSize)

\* hmac({algorithm, secret, data}): data is a string or a Uint8Array
hmac(algorithm, secret, data) ==
  IF ~Includes(SUPPORTED_HASHES, algorithm)
  THEN Threw(Err("Error", "Unsupported hash algorithm", algorithm))
  ELSE LET bytes == IF data.type = "string" THEN TextEncode(data.v) ELSE data.v
           padded == _padSecret(algorithm, secret)
       IN IF padded.st = "diverged" THEN Diverged
          ELSE Returned(Sign(algorithm, padded.v, bytes))

---------------------------------------------------------------------------
(* src/lib/totp.js: the token engine                                       *)

\* the defaults of the destructured parameters
DefaultDigits == 6
DefaultPeriod == 30
DefaultDelta == 1

\* RFC 4648 base32 without padding (the base32-encode / base32-decode
\* packages, called through base32Encode and base32Decode)
Base32Alphabet ==
  <<"A", "B", "C", "D", "E", "F", "G", "H", "I", "J", "K", "L", "M", "N", "O", "P",
    "Q", "R", "S", "T", "U", "V", "W", "X", "Y", "Z", "2", "3", "4", "5", "6", "7">>

RECURSIVE Base32EncodeLoop(_, _, _)
Base32EncodeLoop(data, bits, value) ==
  IF bits >= 5
  THEN LET shift == 2 ^ (bits - 5)
       IN <<Base32Alphabet[((value \div shift) % 32) + 1]>>
            \o Base32EncodeLoop(data, bits - 5, value % shift)
  ELSE IF data = <<>>
       THEN (IF bits > 0 THEN <<Base32Alphabet[((value * 2 ^ (5 - bits)) % 32) + 1]>>
             ELSE <<>>)
       ELSE Base32EncodeLoop(Tail(data), bits + 8, value * 256 + Head(data))

\* five bytes are eight characters: a longer buffer is encoded five bytes
\* at a time
RECURSIVE base32Encode(_)
base32Encode(data) ==
  IF Len(data) > 5
  THEN Base32EncodeLoop(SubSeq(data, 1, 5), 0, 0)
         \o base32Encode(SubSeq(data, 6, Len(data)))
  ELSE Base32EncodeLoop(data, 0, 0)

RECURSIVE Base32DecodeLoop(_, _, _)
Base32DecodeLoop(string, bits, value) ==
  IF bits >= 8
  THEN LET shift == 2 ^ (bits - 8)
           rest == Base32DecodeLoop(string, bits - 8, value % shift)
       IN IF rest.st = "threw" THEN rest
          ELSE Returned(<<(value \div shift) % 256>> \o rest.v)
  ELSE IF string = <<>> THEN Returned(<<>>)
  ELSE IF ~Includes(Base32Alphabet, Head(string))
       THEN Threw(Err("Error", "Invalid character found", <<Head(string)>>))
       ELSE Base32DecodeLoop(Tail(string), bits + 5,
              value * 32
                + (CHOOSE i \in 0..31 : Base32Alphabet[i + 1] = Head(string)))

base32Decode(string) == Base32DecodeLoop(string, 0, 0)

_decodeSecret(secret) ==
  IF secret.type = "string" THEN base32Decode(secret.v)
  ELSE IF secret.type = "Uint8Array" THEN Returned(secret.v)
  ELSE Threw(Err("TypeError",
                 "\"secret\" must be Uint8Array or base32-encoded string.", <<>>))

\* hash[offset] &= 0x7f: a write past the end of a typed array is dropped
MaskAt(hash, offset) ==
  IF offset < Len(hash) THEN [hash EXCEPT ![offset + 1] = @ % 128] ELSE hash

\* DataView.prototype.getUint32(offset): big-endian, RangeError when the
\* four bytes do not lie inside the view
GetUint32(bytes, offset) ==
  IF offset + 4 > Len(bytes)
  THEN Threw(Err("RangeError", "Offset is outside the bounds of the DataView", <<>>))
  ELSE Returned(bytes[offset + 1] * 16777216 + bytes[offset + 2] * 65536
                  + bytes[offset + 3] * 256 + bytes[offset + 4])

\* hash[hash.length - 1] & 0x0f
\* an offset taken from the high 4 bits of the last byte
OffsetHigh4(hash) == hash[Len(hash)] \div 16

OffsetLow4(hash) == hash[Len(hash)] % 16

\* _dynamicTruncation({hash}): offset = last byte & 0x0f, hash[offset] &= 0x7f,
\* then the big-endian uint32 at offset
_dynamicTruncation(hash) ==
  LET offset == OffsetLow4(hash)
  IN GetUint32(MaskAt(hash, offset), offset)

\* the second _dynamicTruncation(hash) of the file: offset = last byte & 0x7f
_dynamicTruncation2(hash) ==
  LET offset == hash[Len(hash)] % 128
  IN GetUint32(MaskAt(hash, offset), offset)

_getCurrentSteps(now, period) ==
  LET secs == now \div 1000
  IN secs \div period

\* hex.match(/.{1,2}/g)
RECURSIVE MatchPairs(_)
MatchPairs(hex) ==
  IF Len(hex) <= 2 THEN <<hex>>
  ELSE <<SubSeq(hex, 1, 2)>> \o MatchPairs(SubSeq(hex, 3, Len(hex)))

_hexToUint8Array(hex) ==
  LET m == MatchPairs(hex)
  IN [i \in 1..Len(m) |-> ToUint8(ParseInt16(m[i]))]

\* the HOTP counter of _generateToken, steps in halves
Counter(steps) == _hexToUint8Array(PadStart(ToString16(steps), 16, "0"))

\* _generateToken({steps, algorithm, secret, digits}): steps and digits in
\* halves
_generateToken(steps, algorithm, secret, digits) ==
  LET hash == hmac(algorithm, secret, Bytes(Counter(steps)))
  IN IF hash.st # "returned" THEN hash
     ELSE LET dbc == _dynamicTruncation(hash.v)
          IN IF dbc.st = "threw" THEN dbc
             ELSE LET dbcDec == PadStart(NatToString(dbc.v, 10), 10, "0")
                  IN Returned(Slice(dbcDec, TruncHalves(2 * Len(dbcDec) - digits)))

\* _generateVerifyValue({steps, algorithm, secret, digits})
_generateVerifyValue(steps, algorithm, secret, digits) ==
  LET token == _generateToken(steps, algorithm, secret, digits)
  IN IF token.st # "returned" THEN token
     ELSE hmac(algorithm, secret, Str(token.v))


\* generateSecret(): the arguments are not read; hmac.generateSecret() is
\* called without a size, random is the fill getRandomValues produced
generateSecret(algorithm, random) ==
  [st |-> "returned", secret |-> random, err |-> NoError]

\* generateToken from the current steps on; digits in halves
TokenAtSteps(secret, algorithm, digits, steps) ==
  IF digits.type # "number" \/ ~(digits.h > 0 /\ digits.h <= 20)
  THEN [st |-> "threw", token |-> <<>>,
        err |-> Err("Error", "\"digits\" must be an integer > 0 and <= 10.", <<>>),
        decoded |-> FALSE, hmacs |-> 0]
  ELSE LET decodedSecret == _decodeSecret(secret)
       IN IF decodedSecret.st = "threw"
          THEN [st |-> "threw", token |-> <<>>, err |-> decodedSecret.err,
                decoded |-> TRUE, hmacs |-> 0]
          ELSE LET token == _generateToken(2 * steps, algorithm,
                                           decodedSecret.v, digits.h)
               IN [st |-> token.st, token |-> token.v, err |-> token.err,
                   decoded |-> TRUE, hmacs |-> 1]

\* generateToken({secret, algorithm, digits, period, now}); digits in halves
generateToken(secret, algorithm, digits, period, now) ==
  TokenAtSteps(secret, algorithm, digits, _getCurrentSteps(now, period))

\* Math.floor(n / divisor) for a number n written in decimal digits, which
\* may go beyond 2^31: the quotient in decimal digits, by long division
RECURSIVE FloorDiv(_, _, _)
FloorDiv(decimal, divisor, remainder) ==
  IF decimal = <<>> THEN <<>>
  ELSE LET current == 10 * remainder + (CharCode(Head(decimal)) - 48)
       IN <<CharOfCode(48 + current \div divisor)>>
            \o FloorDiv(Tail(decimal), divisor, current % divisor)

\* the number below 2^31 that decimal digits write
RECURSIVE DecimalValue(_)
DecimalValue(decimal) ==
  IF decimal = <<>> THEN 0
  ELSE 10 * DecimalValue(SubSeq(decimal, 1, Len(decimal) - 1))
         + (CharCode(decimal[Len(decimal)]) - 48)

\* _getCurrentSteps({now, period}) of a now in decimal digits
CurrentStepsOfDecimal(now, period) ==
  LET secs == FloorDiv(now, 1000, 0)
  IN DecimalValue(FloorDiv(secs, period, 0))

\* generateToken with now in decimal digits
generateTokenAt(secret, algorithm, digits, period, now) ==
  TokenAtSteps(secret, algorithm, digits, CurrentStepsOfDecimal(now, period))

\* a loop that stops one step early: for(let i = -delta; i < delta; ++i)
CandidateStepsExclusive(currentSteps, delta) ==
  [k \in 1..delta |-> 2 * currentSteps - delta + 2 * (k - 1)]

\* the steps verify passes to _generateVerifyValue, in halves:
\* for(let i = -delta; i <= delta; ++i) steps = currentSteps + i
CandidateSteps(currentSteps, delta) ==
  [k \in 1..(delta + 1) |-> 2 * currentSteps - delta + 2 * (k - 1)]

\* candidates.some(c => every byte of c equals the byte of verifyValue)
SomeMatches(candidates, verifyValue) ==
  \E k \in 1..Len(candidates) :
    LET c == candidates[k]
    IN \A i \in 1..Len(c) : c[i] = verifyValue[i]

\* verify({token, secret, algorithm, period, delta, now}); delta in halves
verify(token, secret, algorithm, period, delta, now) ==
  LET fail(e, n) == [st |-> "threw", ok |-> FALSE, err |-> e, hmacs |-> n,
                     steps |-> <<>>]
  IN
  IF token.type # "string"
  THEN fail(Err("TypeError", "\"token\" must be a string.", <<>>), 0)
  ELSE IF ~(Len(token.v) > 0 /\ Len(token.v) <= 10)
  THEN fail(Err("Error", "\"token\" length must be > 0 and <= 10.", <<>>), 0)
  ELSE IF delta.type # "number" \/ ~(delta.h >= 0 /\ delta.h <= 20)
  THEN fail(Err("Error", "\"delta\" must be an integer >= 0 and <= 10.", <<>>), 0)
  ELSE
  LET decodedSecret == _decodeSecret(secret)
  IN
  IF decodedSecret.st = "threw" THEN fail(decodedSecret.err, 0)
  ELSE
  LET digits == Len(token.v)
      verifyValue == hmac(algorithm, decodedSecret.v, token)
  IN
  IF verifyValue.st = "threw" THEN fail(verifyValue.err, 1)
  ELSE IF verifyValue.st = "diverged"
  THEN [st |-> "diverged", ok |-> FALSE, err |-> NoError, hmacs |-> 1,
        steps |-> <<>>]
  ELSE
  LET currentSteps == _getCurrentSteps(now, period)
      steps == CandidateSteps(currentSteps, delta.h)
      candidates ==
        [k \in 1..Len(steps) |->
           _generateVerifyValue(steps[k], algorithm, decodedSecret.v,
                                2 * digits).v]
  IN [st |-> "returned", ok |-> SomeMatches(candidates, verifyValue.v),
      err |-> NoError, hmacs |-> 1 + 2 * Len(steps), steps |-> steps]

---------------------------------------------------------------------------
(* src/lib/totp.js: the key-URI codec, and the platform functions it calls *)

HexUpper ==
  <<"0", "1", "2", "3", "4", "5", "6", "7", "8", "9",
    "A", "B", "C", "D", "E", "F">>

IsAlnum(c) ==
  LET n == CharCode(c)
  IN (n >= 48 /\ n <= 57) \/ (n >= 65 /\ n <= 90) \/ (n >= 97 /\ n <= 122)

\* %XX of an ASCII character
PercentEncoded(c) ==
  <<"%", HexUpper[(CharCode(c) \div 16) + 1], HexUpper[(CharCode(c) % 16) + 1]>>

RECURSIVE Flatten(_)
Flatten(ss) == IF ss = <<>> THEN <<>> ELSE Head(ss) \o Flatten(Tail(ss))

\* a label that is left as it was given
EncodeNothing(s) == s

\* encodeURIComponent(s): every character but A-Z a-z 0-9 - _ . ! ~ * ' ( )
\* becomes %XX
encodeURIComponent(s) ==
  Flatten([i \in 1..Len(s) |->
             IF IsAlnum(s[i]) \/ s[i] \in {"-", "_", ".", "!", "~", "*", "'", "(", ")"}
             THEN <<s[i]>> ELSE PercentEncoded(s[i])])

\* the application/x-www-form-urlencoded serialisation URLSearchParams gives
\* a name or a value: A-Z a-z 0-9 * - . _ stay, a space becomes +, every
\* other character %XX
FormEncode(s) ==
  Flatten([i \in 1..Len(s) |->
             IF IsAlnum(s[i]) \/ s[i] \in {"*", "-", ".", "_"} THEN <<s[i]>>
             ELSE IF s[i] = " " THEN <<"+">>
             ELSE PercentEncoded(s[i])])

\* decodeURIComponent(s): %XX with XX below 0x80 is the character of that
\* code; a % that two hex digits do not follow, and a byte that cannot start
\* a UTF-8 sequence (0x80..0xBF, 0xF8..0xFF), throw URIError.  A byte that
\* starts a multi-byte sequence (0xC0..0xF7) needs its continuation bytes,
\* which no string of the model supplies: it throws as well.
RECURSIVE decodeURIComponent(_)
decodeURIComponent(s) ==
  IF s = <<>> THEN Returned(<<>>)
  ELSE IF Head(s) # "%"
  THEN LET rest == decodeURIComponent(Tail(s))
       IN IF rest.st = "threw" THEN rest ELSE Returned(<<Head(s)>> \o rest.v)
  ELSE IF Len(s) < 3 \/ ~IsHexDigit(s[2]) \/ ~IsHexDigit(s[3])
  THEN Threw(Err("URIError", "URI malformed", <<>>))
  ELSE LET byte == HexValue(s[2]) * 16 + HexValue(s[3])
       IN IF byte >= 128 THEN Threw(Err("URIError", "URI malformed", <<>>))
          ELSE LET rest == decodeURIComponent(SubSeq(s, 4, Len(s)))
               IN IF rest.st = "threw" THEN rest
                  ELSE Returned(<<CharOfCode(byte)>> \o rest.v)

\* the percent-decoding of the form-urlencoded parser: + is a space, %XX a
\* byte, and a % that two hex digits do not follow stays as it is
RECURSIVE FormDecode(_)
FormDecode(s) ==
  IF s = <<>> THEN <<>>
  ELSE IF Head(s) = "+" THEN <<" ">> \o FormDecode(Tail(s))
  ELSE IF Head(s) = "%" /\ Len(s) >= 3 /\ IsHexDigit(s[2]) /\ IsHexDigit(s[3])
  THEN <<CharOfCode(HexValue(s[2]) * 16 + HexValue(s[3]))>>
         \o FormDecode(SubSeq(s, 4, Len(s)))
  ELSE <<Head(s)>> \o FormDecode(Tail(s))

\* the index of the first character of s that is in set, 0 when there is none
IndexOfAny(s, set) ==
  IF \E i \in 1..Len(s) : s[i] \in set
  THEN CHOOSE i \in 1..Len(s) : s[i] \in set /\ \A j \in 1..(i - 1) : s[j] \notin set
  ELSE 0

StartsWith(s, prefix) ==
  Len(s) >= Len(prefix) /\ SubSeq(s, 1, Len(prefix)) = prefix

\* String.prototype.split(sep), sep one character
RECURSIVE Split(_, _)
Split(s, sep) ==
  LET i == IndexOfAny(s, {sep})
  IN IF i = 0 THEN <<s>>
     ELSE <<SubSeq(s, 1, i - 1)>> \o Split(SubSeq(s, i + 1, Len(s)), sep)

\* String.prototype.replaceAll(c, "")
Remove(s, c) == SelectSeq(s, LAMBDA x : x # c)

\* new URLSearchParams(params).toString(), params a sequence of
\* <<name, value>> in insertion order
RECURSIVE Join(_, _)
Join(ss, sep) ==
  IF ss = <<>> THEN <<>>
  ELSE IF Len(ss) = 1 THEN ss[1]
  ELSE ss[1] \o sep \o Join(Tail(ss), sep)

URLSearchParamsToString(params) ==
  Join([i \in 1..Len(params) |->
          FormEncode(params[i][1]) \o <<"=">> \o FormEncode(params[i][2])],
       <<"&">>)

\* the parse of a query string into <<name, value>> pairs
URLSearchParamsParse(query) ==
  LET parts == SelectSeq(Split(query, "&"), LAMBDA x : x # <<>>)
  IN [i \in 1..Len(parts) |->
        LET eq == IndexOfAny(parts[i], {"="})
        IN IF eq = 0 THEN <<FormDecode(parts[i]), <<>>>>
           ELSE <<FormDecode(SubSeq(parts[i], 1, eq - 1)),
                  FormDecode(SubSeq(parts[i], eq + 1, Len(parts[i])))>>]

\* Object.fromEntries(searchParams)[name]: the last value given to name
Entry(entries, name) ==
  IF \E i \in 1..Len(entries) : entries[i][1] = name
  THEN Str(entries[CHOOSE i \in 1..Len(entries) :
                     /\ entries[i][1] = name
                     /\ \A j \in (i + 1)..Len(entries) : entries[j][1] # name][2])
  ELSE Undefined

\* the characters the URL parser percent-encodes in a path
PathEncode(s) ==
  Flatten([i \in 1..Len(s) |->
             IF s[i] \in {" ", "\"", "<", ">", "grave", "{", "}"}
             THEN PercentEncoded(s[i]) ELSE <<s[i]>>])

IsSchemeChar(c) == IsAlnum(c) \/ c \in {"+", "-", "."}

\* new URL(uri), for a scheme that is not special (as otpauth is not):
\* protocol, host, pathname and the query string.  The host of the model's
\* URIs has no userinfo and no port, and no path segment is "." or "..".
ParseURL(uri) ==
  LET colon == IndexOfAny(uri, {":"})
      invalid == [ok |-> FALSE, protocol |-> <<>>, host |-> <<>>,
                  pathname |-> <<>>, query |-> <<>>]
  IN IF colon <= 1 \/ (\E i \in 1..(colon - 1) : ~IsSchemeChar(uri[i]))
          \/ (CharCode(uri[1]) >= 48 /\ CharCode(uri[1]) <= 57)
          \/ uri[1] \in {"+", "-", "."}
     THEN invalid
     ELSE
     LET rest == SubSeq(uri, colon + 1, Len(uri))
         hash == IndexOfAny(rest, {"#"})
         noFragment == IF hash = 0 THEN rest ELSE SubSeq(rest, 1, hash - 1)
         mark == IndexOfAny(noFragment, {"?"})
         hier == IF mark = 0 THEN noFragment ELSE SubSeq(noFragment, 1, mark - 1)
         query == IF mark = 0 THEN <<>>
                  ELSE SubSeq(noFragment, mark + 1, Len(noFragment))
         hasAuthority == StartsWith(hier, <<"/", "/">>)
         afterSlashes == SubSeq(hier, 3, Len(hier))
         slash == IndexOfAny(afterSlashes, {"/"})
     IN [ok |-> TRUE,
         protocol |-> SubSeq(uri, 1, colon),
         host |-> IF ~hasAuthority THEN <<>>
                  ELSE IF slash = 0 THEN afterSlashes
                  ELSE SubSeq(afterSlashes, 1, slash - 1),
         pathname |-> IF ~hasAuthority THEN PathEncode(hier)
                      ELSE IF slash = 0 THEN <<>>
                      ELSE PathEncode(SubSeq(afterSlashes, slash, Len(afterSlashes))),
         query |-> query]

\* parseInt(x, 10) of a string: an optional sign, then the longest run of
\* decimal digits; NaN when there is none
RECURSIVE DecPrefix(_, _)
DecPrefix(s, acc) ==
  IF s = <<>> \/ Head(s) \notin {"0", "1", "2", "3", "4", "5", "6", "7", "8", "9"}
  THEN acc
  ELSE DecPrefix(Tail(s), [n |-> acc.n + 1, v |-> acc.v * 10 + HexValue(Head(s))])

ParseInt10(s) ==
  LET neg == s # <<>> /\ Head(s) = "-"
      s1 == IF s # <<>> /\ Head(s) \in {"-", "+"} THEN Tail(s) ELSE s
      p == DecPrefix(s1, [n |-> 0, v |-> 0])
  IN [nan |-> p.n = 0, v |-> IF neg THEN -p.v ELSE p.v]

IntValue(n) == [nan |-> FALSE, v |-> n]

OTPAUTH == <<"o", "t", "p", "a", "u", "t", "h", ":">>
TOTP == <<"t", "o", "t", "p">>
SHA == <<"S", "H", "A">>
KeySecret == <<"s", "e", "c", "r", "e", "t">>
KeyAlgorithm == <<"a", "l", "g", "o", "r", "i", "t", "h", "m">>
KeyPeriod == <<"p", "e", "r", "i", "o", "d">>
KeyDigits == <<"d", "i", "g", "i", "t", "s">>
KeyIssuer == <<"i", "s", "s", "u", "e", "r">>

\* toKeyUri({accountname, issuer, secret, algorithm, period, digits}):
\* accountname, issuer and secret are typed values, period and digits
\* non-negative integers
toKeyUri(accountname, issuer, secret, algorithm, period, digits) ==
  IF ~(accountname.type = "string" /\ Len(accountname.v) > 0)
  THEN Threw(Err("TypeError", "\"accountname\" must be a non-empty string.", <<>>))
  ELSE IF ~(secret.type = "string" \/ secret.type = "Uint8Array")
  THEN Threw(Err("TypeError",
                 "\"secret\" must be Uint8Array or base32-encoded string.", <<>>))
  ELSE
  LET truthy == issuer.type = "string" /\ issuer.v # <<>>
      issuer2 == IF truthy /\ Includes(issuer.v, ":")
                 THEN encodeURIComponent(issuer.v) ELSE issuer.v
      accountname2 == IF Includes(accountname.v, ":")
                      THEN encodeURIComponent(accountname.v) ELSE accountname.v
      label == IF truthy THEN issuer2 \o <<":">> \o accountname2 ELSE accountname2
      secret2 == IF secret.type # "string" THEN base32Encode(secret.v) ELSE secret.v
      params ==
        <<<<KeySecret, secret2>>>>
          \o (IF algorithm # SHA1 THEN <<<<KeyAlgorithm, Remove(algorithm, "-")>>>>
              ELSE <<>>)
          \o (IF period # 30 THEN <<<<KeyPeriod, NatToString(period, 10)>>>> ELSE <<>>)
          \o (IF digits # 6 THEN <<<<KeyDigits, NatToString(digits, 10)>>>> ELSE <<>>)
          \o (IF truthy THEN <<<<KeyIssuer, issuer2>>>> ELSE <<>>)
      query == URLSearchParamsToString(params)
  IN Returned(OTPAUTH \o <<"/", "/">> \o TOTP \o <<"/">> \o label \o <<"?">> \o query)

NoRecord ==
  [label |-> <<>>, issuer |-> Undefined, accountname |-> <<>>,
   secret |-> Undefined, algorithm |-> <<>>, period |-> IntValue(0), digits |-> IntValue(0)]

\* fromKeyUri({uri})
fromKeyUri(uri) ==
  LET url == ParseURL(uri)
      fail(e) == [st |-> "threw", err |-> e, record |-> NoRecord]
  IN
  IF ~url.ok THEN fail(Err("TypeError", "Invalid URL", <<>>))
  ELSE IF url.protocol # OTPAUTH
  THEN fail(Err("Error", "Unknown protocol", url.protocol))
  ELSE IF url.host # TOTP
  THEN fail(Err("Error", "Unknown supported type", url.host))
  ELSE
  LET label == Slice(url.pathname, 1)
      entries == URLSearchParamsParse(url.query)
      secret == Entry(entries, KeySecret)
      algorithmEntry == Entry(entries, KeyAlgorithm)
      algorithm == IF algorithmEntry.type = "undefined"
                   THEN SHA \o <<"1">> ELSE algorithmEntry.v
      periodEntry == Entry(entries, KeyPeriod)
      digitsEntry == Entry(entries, KeyDigits)
      issuer == Entry(entries, KeyIssuer)
      pieces == Split(label, ":")
      issuerPrefix == pieces[1]
      accountname == IF Len(pieces) >= 2 /\ pieces[2] # <<>>
                     THEN pieces[2] ELSE issuerPrefix
  IN
  IF ~StartsWith(algorithm, SHA)
  THEN fail(Err("Error", "Unsupported hash algorithm", algorithm))
  ELSE
  LET decoded == decodeURIComponent(accountname)
  IN IF decoded.st = "threw" THEN fail(decoded.err)
     ELSE [st |-> "returned", err |-> NoError,
           record |->
             [label |-> label, issuer |-> issuer, accountname |-> decoded.v,
              secret |-> secret,
              algorithm |-> SHA \o <<"-">> \o Slice(algorithm, 3),
              period |-> IF periodEntry.type = "undefined" THEN IntValue(30)
                         ELSE ParseInt10(periodEntry.v),
              digits |-> IF digitsEntry.type = "undefined" THEN IntValue(6)
                         ELSE ParseInt10(digitsEntry.v)]]

---------------------------------------------------------------------------
(* The calls of the token engine.                                          *)

NoSecretCall ==
  [st |-> "none", algorithm |-> Undefined, secret |-> <<>>, err |-> NoError]

NoTokenCall ==
  [st |-> "none", secret |-> Undefined, algorithm |-> <<>>, digits |-> Num(0),
   period |-> 0, now |-> 0, token |-> <<>>, err |-> NoError,
   decoded |-> FALSE, hmacs |-> 0]

NoVerifyCall ==
  [st |-> "none", token |-> Undefined, delta |-> Num(0), now |-> 0,
   ok |-> FALSE, err |-> NoError, hmacs |-> 0, steps |-> <<>>]

NoPadCall ==
  [st |-> "none", algorithm |-> <<>>, secret |-> <<>>, key |-> <<>>]

NoVectorCall == [st |-> "none", vector |-> 0, digits |-> 0, token |-> <<>>]

NoTruncCall ==
  [st |-> "none", definition |-> 0, hash |-> <<>>, dbc |-> 0, err |-> NoError]

NoMemory ==
  [st |-> "none", original |-> <<>>, secret |-> <<>>, calls |-> 0,
   last |-> [fn |-> "", algorithm |-> <<>>, now |-> 0, st |-> ""]]

NoVerifyInProgress ==
  [st |-> "none", token |-> Undefined, secret |-> Undefined, algorithm |-> <<>>,
   period |-> 0, delta |-> Num(0), now |-> 0, verifyValue |-> <<>>,
   steps |-> <<>>, cand |-> <<>>, ok |-> FALSE, err |-> NoError]

NoEncodeCall ==
  [st |-> "none", accountname |-> Undefined, issuer |-> Undefined,
   secret |-> Undefined, algorithm |-> <<>>, period |-> 0, digits |-> 0,
   uri |-> <<>>, err |-> NoError]

NoDecodeCall ==
  [st |-> "none", uri |-> <<>>, err |-> NoError, record |-> NoRecord]

Algorithms == {SHA1, SHA256, SHA512, BLAKE2b}

\* Uint8Array secrets of 0, 6, 12, ... bytes ("123456..." in ASCII), the
\* base32 string of "12345", a string that is not base32, and no secret
Secrets ==
  {Bytes([i \in 1..(6 * n) |-> 48 + (i % 10)]) : n \in 0..MaxSecretChunks}
    \cup {Str(<<"G", "E", "Z", "D", "G", "N", "B", "V">>), Str(<<"!">>),
          Undefined}

\* digits: -1, 0, 1, 2.5, 6, 10, 10.5, 11 and a value that is no number
DigitsArgs ==
  {Num(h) : h \in {-2, 0, 2, 5, 12, 20, 21, 22}} \cup {NotANumber}

\* delta: -0.5, 0, 0.5, 1, 10, 10.5 and a value that is no number
DeltaArgs ==
  {Num(h) : h \in {-1, 0, 1, 2, 20, 21}} \cup {NotANumber}

Periods == {7, DefaultPeriod}

Nows == {t * 15000 : t \in 0..MaxTick}

\* the test suite's change of a token: its first character replaced
FlipFirst(token) ==
  <<IF token[1] = "1" THEN "0" ELSE "1">> \o Tail(token)

\* tokens verify rejects: no token, the empty one, one of 11 characters
BadTokens ==
  {Undefined, Str(<<>>),
   Str(<<"0", "1", "2", "3", "4", "5", "6", "7", "8", "9", "1">>)}

\* the (token, delta, now) verify is called with after the last
\* generateToken call: the token it returned, as it is and changed, with
\* every delta and time; otherwise a token of six digits; and the bad tokens
VerifyArgs ==
  (IF gen.st = "returned"
   THEN {Str(gen.token), Str(FlipFirst(gen.token))} \X DeltaArgs \X Nows
   ELSE {Str(<<"1", "2", "3", "4", "5", "6">>)} \X {Num(2 * DefaultDelta)} \X {0})
    \cup (BadTokens \X {Num(2 * DefaultDelta)} \X {0})

\* A run of the model is one use of the library: generateSecret (or a secret
\* from elsewhere), then generateToken, then verify.  The library keeps
\* nothing between calls, so longer runs add no behaviour.
GenerateSecret ==
  /\ sec.st = "none" /\ gen.st = "none"
  /\ \E algorithm \in {Undefined} \cup {Str(a) : a \in Algorithms} :
       \E random \in RandomValues(DefaultSecretSize) :
         sec' = generateSecret(algorithm, random) @@ [algorithm |-> algorithm]
  /\ UNCHANGED <<gen, ver, enc, dec, pad, trunc, mem, par, rfc>>

GenerateToken ==
  /\ gen.st = "none"
  /\ \E secret \in (IF sec.st = "returned" THEN {Bytes(sec.secret)} ELSE Secrets),
        algorithm \in Algorithms, digits \in DigitsArgs,
        period \in Periods, now \in Nows :
       gen' = generateToken(secret, algorithm, digits, period, now)
                @@ [secret |-> secret, algorithm |-> algorithm,
                    digits |-> digits, period |-> period, now |-> now]
  /\ sec' = NoSecretCall
  /\ UNCHANGED <<ver, enc, dec, pad, trunc, mem, par, rfc>>

\* verify with the secret, algorithm and period of the last generateToken call
Verify ==
  /\ gen.st # "none" /\ ver.st = "none"
  /\ \E args \in VerifyArgs :
       ver' = verify(args[1], gen.secret, gen.algorithm, gen.period,
                     args[2], args[3])
                @@ [token |-> args[1], delta |-> args[2], now |-> args[3]]
  /\ UNCHANGED <<sec, gen, enc, dec, pad, trunc, mem, par, rfc>>

Init ==
  /\ sec = NoSecretCall
  /\ gen = NoTokenCall
  /\ ver = NoVerifyCall
  /\ enc = NoEncodeCall
  /\ dec = NoDecodeCall
  /\ pad = NoPadCall
  /\ trunc = NoTruncCall
  /\ mem = NoMemory
  /\ par = NoVerifyInProgress
  /\ rfc = NoVectorCall

Next == GenerateSecret \/ GenerateToken \/ Verify

Spec == Init /\ [][Next]_vars

---------------------------------------------------------------------------
(* The calls of the key-URI codec.                                        *)

\* the characters of the names: a letter, the colon and the percent sign
NameChars == {"a", ":", "%"}

\* the strings of 1..MaxNameLen characters
Names ==
  UNION {[1..n -> NameChars] : n \in 1..MaxNameLen}

AccountnameArgs == {Undefined, Str(<<>>)} \cup {Str(n) : n \in Names}

IssuerArgs == {Undefined, Str(<<>>)} \cup {Str(n) : n \in Names}

\* the base32 string of "12345", the five bytes themselves, and no secret
UriSecrets ==
  {Str(<<"G", "E", "Z", "D", "G", "N", "B", "V">>), Bytes(<<49, 50, 51, 52, 53>>), Undefined}

UriAlgorithms == {SHA1, SHA256, SHA512}

UriPeriods == {DefaultPeriod, 45}

UriDigits == {DefaultDigits, 8}

\* URIs that toKeyUri did not produce: a scheme, a type, a label and a query
RawSchemes == {<<"o", "t", "p", "a", "u", "t", "h">>, <<"x">>}

RawTypes == {<<"t", "o", "t", "p">>, <<"h", "o", "t", "p">>}

RawQueries ==
  {<<>>,
   <<"s", "e", "c", "r", "e", "t", "=", "G", "E", "Z", "D", "G", "N", "B", "V">>,
   <<"s", "e", "c", "r", "e", "t", "=", "G", "E", "Z", "D", "G", "N", "B", "V", "&", "p", "e", "r", "i", "o", "d", "=", "4", "5", "&", "d", "i", "g", "i", "t", "s", "=", "8", "&", "i", "s", "s", "u", "e", "r", "=", "a">>,
   <<"s", "e", "c", "r", "e", "t", "=", "G", "E", "Z", "D", "G", "N", "B", "V", "&", "p", "e", "r", "i", "o", "d", "=", "x", "&", "d", "i", "g", "i", "t", "s", "=", "8", "x", "&", "s", "e", "c", "r", "e", "t", "=", "A", "A">>}
    \cup {<<"s", "e", "c", "r", "e", "t", "=", "G", "E", "Z", "D", "G", "N", "B", "V", "&", "a", "l", "g", "o", "r", "i", "t", "h", "m", "=">> \o a :
            a \in {<<"S", "H", "A", "1">>, <<"S", "H", "A", "2", "5", "6">>, <<"S", "H", "A", "5", "1", "2">>,
                   <<"S", "H", "A", "3">>, <<"S", "H", "A">>, <<"B", "L", "A", "K", "E", "2", "b">>,
                   <<"s", "h", "a", "1">>}}

\* the labels: none, the names, and one with two colons
RawLabels == Names \cup {<<>>, <<"a", ":", "a", ":", "a">>}

RawUris ==
  {s \o <<":", "/", "/">> \o h \o <<"/">> \o l \o <<"?">> \o q :
     s \in RawSchemes, h \in RawTypes, l \in RawLabels, q \in RawQueries}
    \cup {<<"o", "t", "p", "a", "u", "t", "h">>, <<"o", "t", "p", "a", "u", "t", "h", ":", "/", "/", "t", "o", "t", "p">>, <<"o", "t", "p", "a", "u", "t", "h", ":", "t", "o", "t", "p", "/", "a", "?", "s", "e", "c", "r", "e", "t", "=", "G", "E", "Z", "D", "G", "N", "B", "V">>}

ToKeyUri ==
  /\ enc.st = "none" /\ dec.st = "none"
  /\ \E accountname \in AccountnameArgs, issuer \in IssuerArgs,
        secret \in UriSecrets, algorithm \in UriAlgorithms,
        period \in UriPeriods, digits \in UriDigits :
       LET r == toKeyUri(accountname, issuer, secret, algorithm, period, digits)
       IN enc' = [st |-> r.st, accountname |-> accountname, issuer |-> issuer,
                  secret |-> secret, algorithm |-> algorithm,
                  period |-> period, digits |-> digits,
                  uri |-> r.v, err |-> r.err]
  /\ UNCHANGED <<sec, gen, ver, dec, pad, trunc, mem, par, rfc>>

\* fromKeyUri of the URI the last toKeyUri call returned, or of a URI from
\* elsewhere
FromKeyUri ==
  /\ dec.st = "none" /\ enc.st # "threw"
  /\ \E uri \in (IF enc.st = "returned" THEN {enc.uri} ELSE RawUris) :
       dec' = fromKeyUri(uri) @@ [uri |-> uri]
  /\ UNCHANGED <<sec, gen, ver, enc, pad, trunc, mem, par, rfc>>

NextUri == ToKeyUri \/ FromKeyUri

SpecUri == Init /\ [][NextUri]_vars

---------------------------------------------------------------------------
(* The internal functions, each called on its own.                         *)

\* secrets of 0..MaxSecretLen bytes, none of the bytes 0
PadSecrets ==
  {[i \in 1..n |-> 1 + ((i * 7 + fill) % 255)] : n \in 0..MaxSecretLen, fill \in {0, 100}}

\* digests of 20, 32 and 64 bytes, with every last byte
Digests ==
  {[i \in 1..n |-> IF i = n THEN last ELSE (fill + i * 37) % 256] :
     n \in {20, 32, 64}, last \in 0..255, fill \in {0, 200}}

PadSecret ==
  /\ pad.st = "none" /\ trunc.st = "none"
  /\ \E i \in 1..Len(SUPPORTED_HASHES), secret \in PadSecrets :
       LET r == _padSecret(SUPPORTED_HASHES[i], secret)
       IN pad' = [st |-> r.st, algorithm |-> SUPPORTED_HASHES[i],
                  secret |-> secret, key |-> r.v]
  /\ UNCHANGED <<sec, gen, ver, enc, dec, trunc, mem, par, rfc>>

DynamicTruncation ==
  /\ pad.st = "none" /\ trunc.st = "none"
  /\ \E hash \in Digests :
       LET r == _dynamicTruncation(hash)
       IN trunc' = [st |-> r.st, definition |-> 1, hash |-> hash,
                    dbc |-> IF r.st = "returned" THEN r.v ELSE 0, err |-> r.err]
  /\ UNCHANGED <<sec, gen, ver, enc, dec, pad, mem, par, rfc>>

DynamicTruncation2 ==
  /\ pad.st = "none" /\ trunc.st = "none"
  /\ \E hash \in Digests :
       LET r == _dynamicTruncation2(hash)
       IN trunc' = [st |-> r.st, definition |-> 2, hash |-> hash,
                    dbc |-> IF r.st = "returned" THEN r.v ELSE 0, err |-> r.err]
  /\ UNCHANGED <<sec, gen, ver, enc, dec, pad, mem, par, rfc>>

NextInternal == PadSecret \/ DynamicTruncation \/ DynamicTruncation2

SpecInternal == Init /\ [][NextInternal]_vars

---------------------------------------------------------------------------
(* verify, followed step by step: each await is a point where the call     *)
(* waits for the platform and the other computations go on.                *)

\* a wait that ends with the first promise fulfilled
AnyFulfilled(cand) == \E k \in 1..Len(cand) : cand[k].stage = "done"

\* Promise.all(promises) is fulfilled when every promise is
AllFulfilled(cand) == \A k \in 1..Len(cand) : cand[k].stage = "done"

\* Promise.all(promises) is rejected when one promise is
SomeRejected(cand) == \E k \in 1..Len(cand) : cand[k].stage = "failed"

\* a secret of 6 bytes
StepSecret == Bytes([i \in 1..6 |-> 48 + i])

\* the token of step 0, and no token
StepTokens ==
  LET t == generateToken(StepSecret, SHA1, Num(2 * DefaultDigits), DefaultPeriod, 0)
  IN {Str(t.token), Undefined}

\* delta: 0, 1, ... MaxDelta, and 0.5 and 11
StepDeltas == {Num(2 * d) : d \in 0..MaxDelta} \cup {Num(1), Num(22)}

\* the times of steps 0 and 2
StepNows == {0, 2 * DefaultPeriod * 1000}

\* verify up to its first await: the checks, _decodeSecret, and the call of
\* hmac.hmac for verifyValue, which awaits the platform; a call that fails
\* before any hmac is one that fails here
StartVerify ==
  /\ par.st = "none"
  /\ \E token \in StepTokens, delta \in StepDeltas, now \in StepNows :
       LET secret == StepSecret
           algorithm == SHA1
           call == [NoVerifyInProgress EXCEPT
                      !.token = token, !.secret = secret,
                      !.algorithm = algorithm, !.period = DefaultPeriod,
                      !.delta = delta, !.now = now]
           whole == verify(token, secret, algorithm, DefaultPeriod, delta, now)
       IN IF whole.st = "threw" /\ whole.hmacs = 0
          THEN par' = [call EXCEPT !.st = "threw", !.err = whole.err]
          ELSE par' = [call EXCEPT !.st = "reference"]
  /\ UNCHANGED <<sec, gen, ver, enc, dec, pad, trunc, mem, rfc>>

\* the platform fulfils the promise of verifyValue; verify goes on to its
\* loop, which starts every candidate computation, and awaits Promise.all
ReferenceSigned ==
  /\ par.st = "reference"
  /\ LET verifyValue == hmac(par.algorithm, _decodeSecret(par.secret).v, par.token)
         currentSteps == _getCurrentSteps(par.now, par.period)
         steps == CandidateSteps(currentSteps, par.delta.h)
     IN par' = [par EXCEPT
                  !.st = "candidates",
                  !.verifyValue = verifyValue.v,
                  !.steps = steps,
                  !.cand = [k \in 1..Len(steps) |-> [stage |-> "token", v |-> <<>>]]]
  /\ UNCHANGED <<sec, gen, ver, enc, dec, pad, trunc, mem, rfc>>

\* the platform fulfils the promise of the hash of candidate k: its token
\* is derived and hmac.hmac is called for the token
CandidateTokenSigned ==
  /\ par.st = "candidates"
  /\ \E k \in 1..Len(par.cand) :
       /\ par.cand[k].stage = "token"
       /\ par' = [par EXCEPT
                    !.cand[k] =
                      [stage |-> "value",
                       v |-> _generateToken(par.steps[k], par.algorithm,
                                            _decodeSecret(par.secret).v,
                                            2 * Len(par.token.v)).v]]
  /\ UNCHANGED <<sec, gen, ver, enc, dec, pad, trunc, mem, rfc>>

\* the platform fulfils the promise of the verify value of candidate k
CandidateValueSigned ==
  /\ par.st = "candidates"
  /\ \E k \in 1..Len(par.cand) :
       /\ par.cand[k].stage = "value"
       /\ par' = [par EXCEPT
                    !.cand[k] =
                      [stage |-> "done",
                       v |-> hmac(par.algorithm, _decodeSecret(par.secret).v,
                                  Str(par.cand[k].v)).v]]
  /\ UNCHANGED <<sec, gen, ver, enc, dec, pad, trunc, mem, rfc>>

\* the platform rejects a promise of candidate k
CandidateFailed ==
  /\ par.st = "candidates"
  /\ \E k \in 1..Len(par.cand) :
       /\ par.cand[k].stage \in {"token", "value"}
       /\ par' = [par EXCEPT !.cand[k] = [stage |-> "failed", v |-> <<>>]]
  /\ UNCHANGED <<sec, gen, ver, enc, dec, pad, trunc, mem, rfc>>

\* Promise.all is fulfilled: verify goes on to candidates.some(...)
Decide ==
  /\ par.st = "candidates"
  /\ AllFulfilled(par.cand)
  /\ par' = [par EXCEPT
               !.st = "returned",
               !.ok = SomeMatches([k \in 1..Len(par.cand) |-> par.cand[k].v],
                                  par.verifyValue)]
  /\ UNCHANGED <<sec, gen, ver, enc, dec, pad, trunc, mem, rfc>>

\* Promise.all is rejected: the await throws and verify is rejected
Reject ==
  /\ par.st = "candidates"
  /\ SomeRejected(par.cand)
  /\ par' = [par EXCEPT
               !.st = "threw",
               !.err = Err("OperationError", "rejected by the platform", <<>>)]
  /\ UNCHANGED <<sec, gen, ver, enc, dec, pad, trunc, mem, rfc>>

NextSteps ==
  \/ StartVerify
  \/ ReferenceSigned
  \/ CandidateTokenSigned
  \/ CandidateValueSigned
  \/ CandidateFailed
  \/ Decide
  \/ Reject

SpecSteps == Init /\ [][NextSteps]_vars

---------------------------------------------------------------------------
(* The calls as they act on memory.  A heap is a sequence of byte buffers,  *)
(* a reference the index of one; heap[1] is the caller's secret.  A         *)
(* function that returns the buffer it was given returns its reference.     *)

\* new Uint8Array(...): a buffer of its own, with the bytes given
NewBuffer(heap, bytes) == [heap |-> Append(heap, bytes), ref |-> Len(heap) + 1]

\* a padding that takes the secret's buffer for the padded key
PaddedIntoSecret(heap, secret, minSize) ==
  [heap |-> [heap EXCEPT ![secret] = [i \in 1..minSize |-> 0]], ref |-> secret]

\* const padded = new Uint8Array(minSize)
Padded(heap, secret, minSize) == NewBuffer(heap, [i \in 1..minSize |-> 0])

\* const v = e; ... : the statements after it, f(v), run with the value of e,
\* computed once: Only({f(v) : v \in {e}})
Only(S) == CHOOSE r \in S : TRUE

\* _padSecret({algorithm, secret}): secret is a reference; the loop writes
\* into the buffer padded, or never ends
PadSecretIn(heap, algorithm, secret) ==
  IF Len(heap[secret]) >= MIN_SECRET_SIZE(algorithm)
  THEN [st |-> "returned", heap |-> heap, ref |-> secret]
  ELSE Only({
         Only({IF filled.st = "diverged"
               THEN [st |-> "diverged", heap |-> padded.heap, ref |-> padded.ref]
               ELSE [st |-> "returned",
                     heap |-> [padded.heap EXCEPT ![padded.ref] = filled.v],
                     ref |-> padded.ref] :
               filled \in {PadLoop(padded.heap[padded.ref], 0, heap[secret],
                                   MIN_SECRET_SIZE(algorithm))}}) :
         padded \in {Padded(heap, secret, MIN_SECRET_SIZE(algorithm))}})

\* hmac({algorithm, secret, data}): secret is a reference, data bytes; the
\* digest is a buffer of its own
HmacIn(heap, algorithm, secret, data) ==
  IF ~Includes(SUPPORTED_HASHES, algorithm)
  THEN [st |-> "threw", heap |-> heap, ref |-> 0]
  ELSE Only({IF key.st = "diverged" THEN key
             ELSE [st |-> "returned",
                   heap |-> Append(key.heap,
                                   Sign(algorithm, key.heap[key.ref], data)),
                   ref |-> Len(key.heap) + 1] :
             key \in {PadSecretIn(heap, algorithm, secret)}})

\* _dynamicTruncation({hash}): hash is a reference; hash[offset] &= 0x7f
\* writes into the buffer
DynamicTruncationIn(heap, hash) ==
  [heap |-> [heap EXCEPT ![hash] = MaskAt(@, OffsetLow4(@))],
   dbc |-> _dynamicTruncation(heap[hash]).v]

\* _generateToken({steps, algorithm, secret, digits}): steps and digits in
\* halves, the counter a buffer of its own
GenerateTokenIn(heap, steps, algorithm, secret, digits) ==
  Only({IF hash.st # "returned"
        THEN [st |-> hash.st, heap |-> hash.heap, token |-> <<>>]
        ELSE Only({[st |-> "returned", heap |-> dt.heap,
                    token |-> Slice(PadStart(NatToString(dt.dbc, 10), 10, "0"),
                                    TruncHalves(2 * 10 - digits))] :
                   dt \in {DynamicTruncationIn(hash.heap, hash.ref)}}) :
        hash \in {HmacIn(Append(heap, Counter(steps)), algorithm, secret,
                         Counter(steps))}})

\* _generateVerifyValue({steps, algorithm, secret, digits})
GenerateVerifyValueIn(heap, steps, algorithm, secret, digits) ==
  Only({IF token.st # "returned"
        THEN [st |-> token.st, heap |-> token.heap, ref |-> 0]
        ELSE HmacIn(token.heap, algorithm, secret, TextEncode(token.token)) :
        token \in {GenerateTokenIn(heap, steps, algorithm, secret, digits)}})

\* the loop of verify over the candidate steps.  The candidates run
\* concurrently in the program; each works on buffers of its own, so their
\* effect on the heap is the same in any order.
RECURSIVE CandidatesIn(_, _, _, _, _)
CandidatesIn(heap, steps, algorithm, secret, digits) ==
  IF steps = <<>> THEN [st |-> "returned", heap |-> heap, ref |-> 0]
  ELSE Only({IF first.st # "returned" THEN first
             ELSE CandidatesIn(first.heap, Tail(steps), algorithm, secret,
                               digits) :
             first \in {GenerateVerifyValueIn(heap, Head(steps), algorithm,
                                              secret, digits)}})

\* verify({token, secret, algorithm, period, delta, now}) with a Uint8Array
\* secret, which _decodeSecret returns as it is, and arguments that pass the
\* checks: the hmac of the token, then the candidates
VerifyIn(heap, token, algorithm, period, delta, now) ==
  Only({IF verifyValue.st # "returned" THEN verifyValue
        ELSE CandidatesIn(verifyValue.heap,
                          CandidateSteps(_getCurrentSteps(now, period), 2 * delta),
                          algorithm, 1, 2 * Len(token)) :
        verifyValue \in {HmacIn(heap, algorithm, 1, TextEncode(token))}})

\* the caller's secrets: 6, 20, 32 and 64 bytes, the top bit of every byte set
MemSecrets == {[i \in 1..n |-> 128 + ((i * 5) % 128)] : n \in {6, 20, 32, 64}}

NewSecret ==
  /\ mem.st = "none"
  /\ \E secret \in MemSecrets :
       mem' = [NoMemory EXCEPT !.st = "ready", !.original = secret, !.secret = secret]
  /\ UNCHANGED <<sec, gen, ver, enc, dec, pad, trunc, par, rfc>>

\* what is left of a call: the caller's buffer, and which call it was
After(heap, fn, algorithm, now, st) ==
  [mem EXCEPT !.secret = heap[1], !.calls = @ + 1,
              !.last = [fn |-> fn, algorithm |-> algorithm, now |-> now, st |-> st]]

MemGenerateToken ==
  /\ mem.st = "ready" /\ mem.calls < MaxCalls
  /\ \E algorithm \in Algorithms, now \in Nows :
       \E r \in {GenerateTokenIn(<<mem.secret>>,
                                2 * _getCurrentSteps(now, DefaultPeriod),
                                algorithm, 1, 2 * DefaultDigits)} :
         mem' = After(r.heap, "generateToken", algorithm, now, r.st)
  /\ UNCHANGED <<sec, gen, ver, enc, dec, pad, trunc, par, rfc>>

MemVerify ==
  /\ mem.st = "ready" /\ mem.calls < MaxCalls
  /\ \E algorithm \in Algorithms, now \in Nows :
       \E r \in {VerifyIn(<<mem.secret>>, <<"1", "2", "3", "4", "5", "6">>,
                         algorithm, DefaultPeriod, DefaultDelta, now)} :
         mem' = After(r.heap, "verify", algorithm, now, r.st)
  /\ UNCHANGED <<sec, gen, ver, enc, dec, pad, trunc, par, rfc>>

MemHmac ==
  /\ mem.st = "ready" /\ mem.calls < MaxCalls
  /\ \E algorithm \in Algorithms :
       \E r \in {HmacIn(<<mem.secret>>, algorithm, 1, <<1, 2, 3>>)} :
         mem' = After(r.heap, "hmac", algorithm, 0, r.st)
  /\ UNCHANGED <<sec, gen, ver, enc, dec, pad, trunc, par, rfc>>

\* toKeyUri reads the secret for base32Encode and writes nothing
MemToKeyUri ==
  /\ mem.st = "ready" /\ mem.calls < MaxCalls
  /\ \E algorithm \in UriAlgorithms :
       \E r \in {toKeyUri(Str(<<"a">>), Undefined, Bytes(mem.secret), algorithm,
                         DefaultPeriod, DefaultDigits)} :
         mem' = After(<<mem.secret>>, "toKeyUri", algorithm, 0, r.st)
  /\ UNCHANGED <<sec, gen, ver, enc, dec, pad, trunc, par, rfc>>

NextMemory ==
  NewSecret \/ MemGenerateToken \/ MemVerify \/ MemHmac \/ MemToKeyUri

SpecMemory == Init /\ [][NextMemory]_vars

---------------------------------------------------------------------------
(* The RFC 6238 Appendix B test vectors of the test suite.                 *)

\* const vectors = [...]: time in seconds, in decimal digits
Vectors == <<
  [time |-> <<"5", "9">>, expectedToken |-> <<"9", "4", "2", "8", "7", "0", "8", "2">>,
   algorithm |-> SHA1],
  [time |-> <<"5", "9">>, expectedToken |-> <<"4", "6", "1", "1", "9", "2", "4", "6">>,
   algorithm |-> SHA256],
  [time |-> <<"5", "9">>, expectedToken |-> <<"9", "0", "6", "9", "3", "9", "3", "6">>,
   algorithm |-> SHA512],
  [time |-> <<"1", "1", "1", "1", "1", "1", "1", "1", "0", "9">>, expectedToken |-> <<"0", "7", "0", "8", "1", "8", "0", "4">>,
   algorithm |-> SHA1],
  [time |-> <<"1", "1", "1", "1", "1", "1", "1", "1", "0", "9">>, expectedToken |-> <<"6", "8", "0", "8", "4", "7", "7", "4">>,
   algorithm |-> SHA256],
  [time |-> <<"1", "1", "1", "1", "1", "1", "1", "1", "0", "9">>, expectedToken |-> <<"2", "5", "0", "9", "1", "2", "0", "1">>,
   algorithm |-> SHA512],
  [time |-> <<"1", "1", "1", "1", "1", "1", "1", "1", "1", "1">>, expectedToken |-> <<"1", "4", "0", "5", "0", "4", "7", "1">>,
   algorithm |-> SHA1],
  [time |-> <<"1", "1", "1", "1", "1", "1", "1", "1", "1", "1">>, expectedToken |-> <<"6", "7", "0", "6", "2", "6", "7", "4">>,
   algorithm |-> SHA256],
  [time |-> <<"1", "1", "1", "1", "1", "1", "1", "1", "1", "1">>, expectedToken |-> <<"9", "9", "9", "4", "3", "3", "2", "6">>,
   algorithm |-> SHA512],
  [time |-> <<"1", "2", "3", "4", "5", "6", "7", "8", "9", "0">>, expectedToken |-> <<"8", "9", "0", "0", "5", "9", "2", "4">>,
   algorithm |-> SHA1],
  [time |-> <<"1", "2", "3", "4", "5", "6", "7", "8", "9", "0">>, expectedToken |-> <<"9", "1", "8", "1", "9", "4", "2", "4">>,
   algorithm |-> SHA256],
  [time |-> <<"1", "2", "3", "4", "5", "6", "7", "8", "9", "0">>, expectedToken |-> <<"9", "3", "4", "4", "1", "1", "1", "6">>,
   algorithm |-> SHA512],
  [time |-> <<"2", "0", "0", "0", "0", "0", "0", "0", "0", "0">>, expectedToken |-> <<"6", "9", "2", "7", "9", "0", "3", "7">>,
   algorithm |-> SHA1],
  [time |-> <<"2", "0", "0", "0", "0", "0", "0", "0", "0", "0">>, expectedToken |-> <<"9", "0", "6", "9", "8", "8", "2", "5">>,
   algorithm |-> SHA256],
  [time |-> <<"2", "0", "0", "0", "0", "0", "0", "0", "0", "0">>, expectedToken |-> <<"3", "8", "6", "1", "8", "9", "0", "1">>,
   algorithm |-> SHA512],
  [time |-> <<"2", "0", "0", "0", "0", "0", "0", "0", "0", "0", "0">>, expectedToken |-> <<"6", "5", "3", "5", "3", "1", "3", "0">>,
   algorithm |-> SHA1],
  [time |-> <<"2", "0", "0", "0", "0", "0", "0", "0", "0", "0", "0">>, expectedToken |-> <<"7", "7", "7", "3", "7", "7", "0", "6">>,
   algorithm |-> SHA256],
  [time |-> <<"2", "0", "0", "0", "0", "0", "0", "0", "0", "0", "0">>, expectedToken |-> <<"4", "7", "8", "6", "3", "8", "2", "6">>,
   algorithm |-> SHA512]>>

\* const secret = new TextEncoder().encode('12345678901234567890')
VectorSecret == TextEncode(<<"1", "2", "3", "4", "5", "6", "7", "8", "9", "0",
                             "1", "2", "3", "4", "5", "6", "7", "8", "9", "0">>)

\* it('should pass test vector ...'): generateToken({secret, algorithm,
\* digits, now}) with now = time * 1000 in decimal digits, the default
\* period, and each number of digits generateToken accepts (the test passes
\* expectedToken.length)
RunVector ==
  /\ \E i \in 1..Len(Vectors), digits \in 1..10 :
       LET r == generateTokenAt(Bytes(VectorSecret), Vectors[i].algorithm,
                                Num(2 * digits), DefaultPeriod,
                                Vectors[i].time \o <<"0", "0", "0">>)
       IN rfc' = [st |-> r.st, vector |-> i, digits |-> digits,
                  token |-> r.token]
  /\ UNCHANGED <<sec, gen, ver, enc, dec, pad, trunc, mem, par>>

NextVectors == RunVector

SpecVectors == Init /\ [][NextVectors]_vars

---------------------------------------------------------------------------
(* Properties of the token engine, checked under Spec.                     *)

IsInteger(x) == x.type = "number" /\ x.h % 2 = 0

\* verify was called with the secret, algorithm and period of a
\* generateToken call that returned
Chained == gen.st = "returned" /\ ver.st # "none"

StepsApart ==
  LET a == _getCurrentSteps(gen.now, gen.period)
      b == _getCurrentSteps(ver.now, gen.period)
  IN IF a < b THEN b - a ELSE a - b

\* the case of C1: the token generateToken returned for an integer digits in
\* 1..10 is verified with an integer delta in 0..10, at a time whose step is
\* at most delta steps from the step of generation
CompleteCase ==
  /\ Chained
  /\ IsInteger(gen.digits)
  /\ ver.token = Str(gen.token)
  /\ IsInteger(ver.delta) /\ ver.delta.h >= 0 /\ ver.delta.h <= 20
  /\ 2 * StepsApart <= ver.delta.h

\* C1: completeness of verify.  A token generated at time now for an integer
\* digits in 1..10 is verified (verify returns true) with every integer delta
\* in 0..10 at every time now' with |steps(now') - steps(now)| <= delta, the
\* secret, algorithm and period being the same.
C1_VerifyComplete == CompleteCase => ver.st = "returned" /\ ver.ok

\* C1's case with the two calls one step or more apart, and with delta = 0
C1_Witness ==
  /\ CompleteCase /\ StepsApart >= 1 /\ ver.st = "returned" /\ ver.ok
  /\ gen.algorithm = SHA512

C1_WitnessDeltaZero ==
  CompleteCase /\ ver.delta.h = 0 /\ ver.st = "returned" /\ ver.ok

\* the token the code derives for the integer step s with the secret,
\* algorithm and number of digits of the verify call
TokenAt(s) ==
  _generateToken(2 * s, gen.algorithm, _decodeSecret(gen.secret).v,
                 2 * Len(ver.token.v)).v

\* the integer steps s with currentSteps - delta <= s <= currentSteps + delta
WindowSteps ==
  LET currentSteps == _getCurrentSteps(ver.now, gen.period)
  IN {s \in (currentSteps - 11)..(currentSteps + 11) :
        /\ 2 * currentSteps - ver.delta.h <= 2 * s
        /\ 2 * s <= 2 * currentSteps + ver.delta.h}

\* C2: soundness of verify, the HMAC being collision-free (as Sign is).
\* Whenever verify returns true, the supplied token is the token derived for
\* some integer step s with currentSteps - delta <= s <= currentSteps + delta.
C2_VerifySound ==
  (ver.st = "returned" /\ ver.ok) =>
    \E s \in WindowSteps : ver.token.v = TokenAt(s)

\* C2 restricted to the calls whose delta is an integer
C2_SoundForIntegerDelta ==
  (ver.st = "returned" /\ ver.ok /\ IsInteger(ver.delta)) =>
    \E s \in WindowSteps : ver.token.v = TokenAt(s)

\* C2, the special case: a token with one character changed, verified with
\* delta = 0 at the time it was generated, is refused
C2_FlippedRefused ==
  (/\ Chained /\ ver.st = "returned"
   /\ ver.token = Str(FlipFirst(gen.token))
   /\ ver.delta = Num(0) /\ ver.now = gen.now) => ~ver.ok

\* the 31-bit dynamic binary code of the last generateToken call
DbcOfGen ==
  _dynamicTruncation(
    hmac(gen.algorithm, _decodeSecret(gen.secret).v,
         Bytes(Counter(2 * _getCurrentSteps(gen.now, gen.period)))).v).v

\* the decimal rendering of dbc mod 10^d, zero-padded to d characters
\* (dbc < 2^31 < 10^10, so dbc mod 10^10 is dbc)
ModToken(dbc, d) ==
  PadStart(NatToString(IF d >= 10 THEN dbc ELSE dbc % (10 ^ d), 10), d, "0")

\* C3: for every digits value d that generateToken accepts, the token it
\* returns has exactly d decimal characters and is the decimal rendering of
\* dbc mod 10^d, left-padded with zeros to d characters.
C3_TokenIsDbcModPow10 ==
  gen.st = "returned" =>
    /\ 2 * Len(gen.token) = gen.digits.h
    /\ gen.token = ModToken(DbcOfGen, Len(gen.token))

\* C3 restricted to the calls whose digits is an integer
C3_HoldsForIntegerDigits ==
  (gen.st = "returned" /\ IsInteger(gen.digits)) =>
    /\ 2 * Len(gen.token) = gen.digits.h
    /\ gen.token = ModToken(DbcOfGen, Len(gen.token))

\* C4: generateSecret({algorithm: A}) returns MIN_SECRET_SIZE(A) bytes for
\* every supported A, and 20 bytes when no algorithm is given.
C4_SecretSize ==
  sec.st = "returned" =>
    /\ sec.algorithm.type = "undefined" => Len(sec.secret) = 20
    /\ (sec.algorithm.type = "string"
          /\ Includes(SUPPORTED_HASHES, sec.algorithm.v)) =>
         Len(sec.secret) = MIN_SECRET_SIZE(sec.algorithm.v)

\* C5: generateSecret with an algorithm outside SHA-1, SHA-256, SHA-512
\* throws 'Unsupported hash algorithm "<name>".' and returns no secret.
C5_SecretUnsupported ==
  (/\ sec.st # "none" /\ sec.algorithm.type = "string"
   /\ ~Includes(SUPPORTED_HASHES, sec.algorithm.v)) =>
    /\ sec.st = "threw"
    /\ sec.err = Err("Error", "Unsupported hash algorithm", sec.algorithm.v)

DigitsInRange(x) == IsInteger(x) /\ x.h > 0 /\ x.h <= 20

DigitsError == Err("Error", "\"digits\" must be an integer > 0 and <= 10.", <<>>)

\* C6: generateToken throws the digit-range error, before it decodes the
\* secret or computes an HMAC, for every digits that is not an integer with
\* 0 < digits <= 10.
C6_DigitsValidated ==
  (gen.st # "none" /\ ~DigitsInRange(gen.digits)) =>
    /\ gen.st = "threw" /\ gen.err = DigitsError
    /\ ~gen.decoded /\ gen.hmacs = 0

\* C6 restricted to the digits that are integers or no numbers
C6_HoldsForIntegers ==
  (/\ gen.st # "none" /\ ~DigitsInRange(gen.digits)
   /\ (gen.digits.type = "number" => gen.digits.h % 2 = 0)) =>
    /\ gen.st = "threw" /\ gen.err = DigitsError
    /\ ~gen.decoded /\ gen.hmacs = 0

TokenInRange(t) == t.type = "string" /\ Len(t.v) > 0 /\ Len(t.v) <= 10

DeltaInRange(x) == IsInteger(x) /\ x.h >= 0 /\ x.h <= 20

\* C7: verify throws, and computes no HMAC, for every token that is not a
\* string of 1..10 characters and every delta that is not an integer in
\* 0..10; in every call that returns, the candidates are exactly the integer
\* steps currentSteps - delta .. currentSteps + delta.
C7_VerifyValidated ==
  /\ (ver.st # "none" /\ ~(TokenInRange(ver.token) /\ DeltaInRange(ver.delta))) =>
       (ver.st = "threw" /\ ver.hmacs = 0)
  /\ ver.st = "returned" =>
       /\ {ver.steps[k] : k \in 1..Len(ver.steps)} = {2 * s : s \in WindowSteps}
       /\ Len(ver.steps) = Cardinality(WindowSteps)

\* C7 restricted to the deltas that are integers or no numbers
C7_HoldsForIntegers ==
  (ver.delta.type = "number" => ver.delta.h % 2 = 0) => C7_VerifyValidated

---------------------------------------------------------------------------
(* Properties of the key-URI codec, checked under SpecUri.                 *)

\* fromKeyUri was called with the URI the last toKeyUri call returned
Decoded == enc.st = "returned" /\ dec.st # "none" /\ dec.uri = enc.uri

\* the secret in base32 text form
SecretText(secret) ==
  IF secret.type = "string" THEN secret.v ELSE base32Encode(secret.v)

\* an issuer was given: the empty string counts as none
IssuerGiven(issuer) == issuer.type = "string" /\ issuer.v # <<>>

RoundTrips ==
  /\ dec.st = "returned"
  /\ dec.record.accountname = enc.accountname.v
  /\ IF IssuerGiven(enc.issuer)
     THEN dec.record.issuer.type = "string" /\ dec.record.issuer.v = enc.issuer.v
     ELSE dec.record.issuer.type = "undefined"
  /\ dec.record.algorithm = enc.algorithm
  /\ dec.record.digits = IntValue(enc.digits)
  /\ dec.record.period = IntValue(enc.period)
  /\ dec.record.secret.type = "string"
  /\ dec.record.secret.v = SecretText(enc.secret)

\* C8: fromKeyUri of the URI toKeyUri returned gives back the accountname,
\* the issuer, the algorithm, the digits and the period toKeyUri was given,
\* and the secret in base32 text form, whatever characters the names hold.
C8_RoundTrip == Decoded => RoundTrips

\* the round trip holds when the issuer has no colon and the accountname has
\* a colon or no percent sign
C8_RoundTripOfPlainNames ==
  (/\ Decoded
   /\ ~(IssuerGiven(enc.issuer) /\ Includes(enc.issuer.v, ":"))
   /\ (Includes(enc.accountname.v, ":") \/ ~Includes(enc.accountname.v, "%")))
    => RoundTrips

C8_DecodeThrows ==
  Decoded /\ dec.st = "threw" /\ dec.err.name = "URIError"

C8_IssuerChanged ==
  Decoded /\ dec.st = "returned" /\ dec.record.issuer.type = "string"
    /\ dec.record.issuer.v # enc.issuer.v

UriPrefix == <<"o", "t", "p", "a", "u", "t", "h", ":", "/", "/", "t", "o", "t", "p", "/">>

\* the query of a URI toKeyUri returned: what follows its last question mark
QueryOf(uri) ==
  LET marks == {i \in 1..Len(uri) : uri[i] = "?"}
  IN IF marks = {} THEN <<>>
     ELSE SubSeq(uri, (CHOOSE i \in marks : \A j \in marks : j <= i) + 1, Len(uri))

\* the parameters the claim gives the URI, in its order
AlgorithmText(algorithm) ==
  IF algorithm = SHA256 THEN <<"S", "H", "A", "2", "5", "6">>
  ELSE IF algorithm = SHA512 THEN <<"S", "H", "A", "5", "1", "2">>
  ELSE <<"S", "H", "A", "1">>

ExpectedNames ==
  <<KeySecret>>
    \o (IF enc.algorithm # SHA1 THEN <<KeyAlgorithm>> ELSE <<>>)
    \o (IF enc.period # 30 THEN <<KeyPeriod>> ELSE <<>>)
    \o (IF enc.digits # 6 THEN <<KeyDigits>> ELSE <<>>)
    \o (IF IssuerGiven(enc.issuer) THEN <<KeyIssuer>> ELSE <<>>)

ParameterNames(uri) ==
  LET entries == URLSearchParamsParse(QueryOf(uri))
  IN [i \in 1..Len(entries) |-> entries[i][1]]

ParameterValue(uri, name) == Entry(URLSearchParamsParse(QueryOf(uri)), name)

QueryAsClaimed ==
  /\ StartsWith(enc.uri, UriPrefix)
  /\ ParameterNames(enc.uri) = ExpectedNames
  /\ ParameterValue(enc.uri, KeySecret) = Str(SecretText(enc.secret))
  /\ enc.algorithm # SHA1 =>
       ParameterValue(enc.uri, KeyAlgorithm) = Str(AlgorithmText(enc.algorithm))
  /\ enc.period # 30 =>
       ParameterValue(enc.uri, KeyPeriod) = Str(NatToString(enc.period, 10))
  /\ enc.digits # 6 =>
       ParameterValue(enc.uri, KeyDigits) = Str(NatToString(enc.digits, 10))

OnlyAccountnameAndSecret ==
  /\ enc.st = "returned"
  /\ ~IssuerGiven(enc.issuer)
  /\ enc.algorithm = SHA1 /\ enc.period = 30 /\ enc.digits = 6

SecretQuery == <<"s", "e", "c", "r", "e", "t", "=">> \o SecretText(enc.secret)

\* C9 as claimed: the parameters of the URI are secret, then algorithm,
\* period, digits and issuer exactly when they are not the defaults (when an
\* issuer is given), in that order; and with only accountname and secret the
\* URI is otpauth://totp/<accountname>?secret=<base32(secret)>, the
\* accountname as it was given.
C9_UriAsClaimed ==
  /\ enc.st = "returned" => QueryAsClaimed
  /\ OnlyAccountnameAndSecret =>
       enc.uri = UriPrefix \o enc.accountname.v \o <<"?">> \o SecretQuery

\* C9: the parameters of the URI are secret, then algorithm, period, digits
\* and issuer exactly when they are not the defaults (when a non-empty
\* issuer is given), in that order; and with only accountname and secret the
\* URI is otpauth://totp/<label>?secret=<base32(secret)>, the label being the
\* accountname, percent-encoded when it contains a colon.
C9_UriShape ==
  /\ enc.st = "returned" => QueryAsClaimed
  /\ OnlyAccountnameAndSecret =>
       enc.uri = UriPrefix
                   \o (IF Includes(enc.accountname.v, ":")
                       THEN Flatten([i \in 1..Len(enc.accountname.v) |->
                              IF enc.accountname.v[i] = ":" THEN <<"%", "3", "A">>
                              ELSE IF enc.accountname.v[i] = "%" THEN <<"%", "2", "5">>
                              ELSE <<enc.accountname.v[i]>>])
                       ELSE enc.accountname.v)
                   \o <<"?">> \o SecretQuery

\* every parameter is in the URI, and the accountname has a colon
C9_Witness ==
  /\ enc.st = "returned"
  /\ Len(ParameterNames(enc.uri)) = 5
  /\ Includes(enc.accountname.v, ":")

C9_WitnessOnlyAccountname ==
  OnlyAccountnameAndSecret /\ Includes(enc.accountname.v, ":")
    /\ enc.secret.type = "Uint8Array"

\* C10: every record fromKeyUri returns has an algorithm of SHA-1, SHA-256
\* or SHA-512: a URI whose algorithm parameter is anything but SHA1, SHA256
\* or SHA512 is refused.
C10_DecodedAlgorithmSupported ==
  dec.st = "returned" => Includes(SUPPORTED_HASHES, dec.record.algorithm)

\* it is refused when the parameter does not start with SHA
C10_RefusedWithoutPrefix ==
  (dec.st # "none" /\ ~StartsWith(
      LET a == ParameterValue(dec.uri, KeyAlgorithm)
      IN IF a.type = "undefined" THEN SHA ELSE a.v, SHA))
    => dec.st = "threw"

C10_UnsupportedReturned ==
  dec.st = "returned" /\ dec.record.algorithm = <<"S", "H", "A", "-", "3">>

\* the label of a URI: its path without the leading slash
LabelOfDecoded == Slice(ParseURL(dec.uri).pathname, 1)

\* what follows the first colon of a label
AfterFirstColon(label) ==
  SubSeq(label, IndexOfAny(label, {":"}) + 1, Len(label))

\* C11: the accountname fromKeyUri returns is the percent-decoding of what
\* follows the first colon of the label, and of the whole label when it has
\* no colon.
C11_SplitOnFirstColon ==
  dec.st = "returned" =>
    LET label == LabelOfDecoded
        expected == decodeURIComponent(
                      IF Includes(label, ":") THEN AfterFirstColon(label) ELSE label)
    IN expected.st = "returned" /\ dec.record.accountname = expected.v

\* it is so for a label with at most one colon that does not end in it
C11_HoldsForOneColon ==
  (/\ dec.st = "returned"
   /\ Len(Split(LabelOfDecoded, ":")) <= 2
   /\ AfterFirstColon(LabelOfDecoded) # <<>>)
    => dec.record.accountname
         = decodeURIComponent(AfterFirstColon(LabelOfDecoded)).v

C11_SecondColonCut ==
  /\ dec.st = "returned"
  /\ LabelOfDecoded = <<"a", ":", "a", ":", "a">>
  /\ dec.record.accountname = <<"a">>

\* C12: every record fromKeyUri returns has a non-empty accountname, and
\* toKeyUri returns no URI for an empty accountname.
C12_AccountnameNonEmpty ==
  /\ dec.st = "returned" => dec.record.accountname # <<>>
  /\ enc.st = "returned" => enc.accountname.type = "string" /\ enc.accountname.v # <<>>

\* the half of it that is about toKeyUri
C12_NoUriForEmptyAccountname ==
  (enc.st # "none" /\ ~(enc.accountname.type = "string" /\ enc.accountname.v # <<>>))
    => enc.st = "threw" /\ enc.err.name = "TypeError"

C12_EmptyPathAccepted ==
  /\ dec.uri = <<"o", "t", "p", "a", "u", "t", "h", ":", "/", "/", "t", "o", "t", "p">>
  /\ dec.st = "returned"
  /\ dec.record.accountname = <<>>

---------------------------------------------------------------------------
(* More properties of the token engine, checked under Spec.                *)

\* C13: generateToken and verify terminate, with a result or an error, for
\* every secret that passes the type validation, the empty one included:
\* the padding of the secret never loops forever.
C13_Terminates == gen.st # "diverged" /\ ver.st # "diverged"

\* they do for every secret of one byte or more
C13_TerminatesForNonEmpty ==
  /\ (gen.st # "none" /\ gen.secret # Bytes(<<>>)) => gen.st \in {"returned", "threw"}
  /\ (ver.st # "none" /\ gen.secret # Bytes(<<>>)) => ver.st \in {"returned", "threw"}

C13_EmptySecretLoops ==
  /\ gen.secret = Bytes(<<>>) /\ gen.st = "diverged"
  /\ ver.st = "diverged"

\* the 8-byte big-endian encoding of n, 0 <= n < 2^31
BigEndian8(n) ==
  [i \in 1..8 |-> IF i <= 4 THEN 0 ELSE (n \div (256 ^ (8 - i))) % 256]

\* the counter that token derivation makes of the step s/2 is the 8-byte
\* big-endian encoding of that step
EncodedAsItself(s) ==
  /\ Len(Counter(s)) = 8
  /\ s % 2 = 0 /\ s >= 0
  /\ Counter(s) = BigEndian8(s \div 2)

\* C17: the counter of every step generateToken and verify derive a token
\* for, the candidates of verify close to the epoch included, is the 8-byte
\* big-endian encoding of that step; two candidates never have the same
\* counter.
C17_CounterIsBigEndian ==
  /\ gen.st = "returned" =>
       EncodedAsItself(2 * _getCurrentSteps(gen.now, gen.period))
  /\ ver.st = "returned" =>
       /\ \A k \in 1..Len(ver.steps) : EncodedAsItself(ver.steps[k])
       /\ \A j, k \in 1..Len(ver.steps) :
            ver.steps[j] # ver.steps[k] => Counter(ver.steps[j]) # Counter(ver.steps[k])

\* it is so when delta is an integer and the window starts at step 0 or later
C17_HoldsAwayFromEpoch ==
  (/\ ver.st = "returned"
   /\ IsInteger(ver.delta)
   /\ 2 * _getCurrentSteps(ver.now, gen.period) >= ver.delta.h)
    => \A k \in 1..Len(ver.steps) : EncodedAsItself(ver.steps[k])

\* the step -1 of an integer window is given the counter of step 255
C17_NegativeStepEncoded ==
  /\ ver.st = "returned"
  /\ IsInteger(ver.delta)
  /\ \E k \in 1..Len(ver.steps) :
       ver.steps[k] = -2 /\ Counter(ver.steps[k]) = BigEndian8(255)

---------------------------------------------------------------------------
(* Properties of the internal functions, checked under SpecInternal.       *)

\* C16: for a non-empty secret shorter than the minimum size of the
\* algorithm the key has exactly that size and its byte i is byte
\* i mod len(secret) of the secret; a secret of the minimum size or more is
\* the key as it is.
C16_PadCyclic ==
  (pad.st # "none" /\ Len(pad.secret) > 0) =>
    /\ pad.st = "returned"
    /\ LET minSize == MIN_SECRET_SIZE(pad.algorithm)
           len == Len(pad.secret)
       IN IF len < minSize
          THEN /\ Len(pad.key) = minSize
               /\ \A i \in 0..(minSize - 1) : pad.key[i + 1] = pad.secret[(i % len) + 1]
          ELSE pad.key = pad.secret

\* a secret of 6 bytes padded to 32: five repetitions and the start of a sixth
C16_Witness ==
  /\ pad.st = "returned"
  /\ pad.algorithm = SHA256
  /\ Len(pad.secret) = 6
  /\ Len(pad.key) = 32

C16_WitnessUnpadded ==
  pad.st = "returned" /\ pad.algorithm = SHA1 /\ Len(pad.secret) = 21

\* the offset a definition of _dynamicTruncation reads at
OffsetOf(definition, hash) ==
  IF definition = 1 THEN hash[Len(hash)] % 16 ELSE hash[Len(hash)] % 128

\* C18: in each definition of _dynamicTruncation, for every digest of 20, 32
\* or 64 bytes the four bytes read lie inside the digest, and the value
\* returned is at least 0 and less than 2^31.
C18_TruncationInRange ==
  trunc.st # "none" =>
    /\ OffsetOf(trunc.definition, trunc.hash) <= 15
    /\ OffsetOf(trunc.definition, trunc.hash) + 4 <= Len(trunc.hash)
    /\ trunc.st = "returned"
    /\ trunc.dbc >= 0 /\ trunc.dbc <= 2147483647

\* it is so in the first definition
C18_FirstDefinitionInRange ==
  (trunc.st # "none" /\ trunc.definition = 1) =>
    /\ OffsetOf(1, trunc.hash) + 4 <= Len(trunc.hash)
    /\ trunc.st = "returned"
    /\ trunc.dbc >= 0 /\ trunc.dbc <= 2147483647

\* the second definition reads past the end of a digest of 20 bytes
C18_SecondDefinitionThrows ==
  /\ trunc.definition = 2
  /\ Len(trunc.hash) = 20
  /\ trunc.hash[20] = 17
  /\ trunc.st = "threw" /\ trunc.err.name = "RangeError"

---------------------------------------------------------------------------
(* Properties of verify followed step by step, checked under SpecSteps.    *)

\* C19: verify starts 2 * delta + 1 candidate computations (delta.h + 1, delta
\* being delta.h / 2); it returns only when all of them have completed, and
\* then the disjunction over the candidates of "the candidate's verify value
\* is the reference verify value", which is the result of the call taken as
\* a whole, whatever the order of completion; and it does not return when a
\* candidate has failed.
C19_AllThenOr ==
  /\ par.st \in {"candidates", "returned"} => Len(par.cand) = par.delta.h + 1
  /\ par.st = "returned" =>
       /\ \A k \in 1..Len(par.cand) : par.cand[k].stage = "done"
       /\ par.ok = (\E k \in 1..Len(par.cand) : par.cand[k].v = par.verifyValue)
       /\ par.ok = verify(par.token, par.secret, par.algorithm, par.period,
                          par.delta, par.now).ok
  /\ (\E k \in 1..Len(par.cand) : par.cand[k].stage = "failed") =>
       par.st # "returned"

\* five candidates, the third of which matches
C19_Witness ==
  /\ par.st = "returned"
  /\ Len(par.cand) = 5
  /\ par.ok
  /\ par.cand[3].v = par.verifyValue
  /\ par.cand[1].v # par.verifyValue

\* a candidate failed after another had completed, and verify failed
C19_WitnessFailed ==
  /\ par.st = "threw"
  /\ \E j, k \in 1..Len(par.cand) :
       par.cand[j].stage = "failed" /\ par.cand[k].stage = "done"

---------------------------------------------------------------------------
(* Properties of the calls as they act on memory, checked under SpecMemory. *)

\* C14: after any sequence of generateToken, verify, hmac and toKeyUri calls,
\* returned or failed, the bytes of the caller's secret are what they were,
\* also when the secret is long enough to be the key as it is.
C14_SecretUnchanged == mem.st = "ready" => mem.secret = mem.original

\* two calls were made with a secret that is the key without padding, the
\* last one a generateToken that returned
C14_Witness ==
  /\ mem.st = "ready"
  /\ mem.calls = 2
  /\ mem.last.fn = "generateToken" /\ mem.last.st = "returned"
  /\ mem.last.algorithm = SHA256
  /\ Len(mem.original) >= MIN_SECRET_SIZE(SHA256)

\* two calls were made with a secret that is padded
C14_WitnessPadded ==
  /\ mem.st = "ready"
  /\ mem.calls = 2
  /\ Len(mem.original) = 6
  /\ mem.last.fn = "verify" /\ mem.last.st = "returned"



\* the last characters of a string
Last(s, n) == SubSeq(s, Len(s) - n + 1, Len(s))

\* C15: generateToken reproduces the RFC 6238 Appendix B test vectors: with
\* the secret "12345678901234567890" in ASCII, period 30 and 8 digits, the
\* token at each listed time for SHA-1, SHA-256 and SHA-512 is the RFC value
C15_RfcVectors ==
  (rfc.st # "none" /\ rfc.digits = 8)
    => (rfc.st = "returned" /\ rfc.token = Vectors[rfc.vector].expectedToken)

\* with fewer digits the token is the end of the RFC value
C15_FewerDigits ==
  (rfc.st # "none" /\ rfc.digits < 8)
    => (rfc.st = "returned"
        /\ rfc.token = Last(Vectors[rfc.vector].expectedToken, rfc.digits))

\* the vector of time 1111111109 with SHA-1 has returned "07081804"
C15_Witness ==
  /\ rfc.st = "returned" /\ rfc.digits = 8
  /\ rfc.vector = 4
  /\ rfc.token = <<"0", "7", "0", "8", "1", "8", "0", "4">>

\* the vector of time 20000000000 with SHA-512 has returned
C15_WitnessLast ==
  /\ rfc.st = "returned" /\ rfc.digits = 8
  /\ rfc.vector = 18

===========================================================================
